---- MODULE Spec2Model ----
(***************************************************************************)
(* State-machine model of FetchtiumClient (src/src/client.ts): the URL     *)
(* classifier, the response cache, the concurrency gate and the fetch      *)
(* operation that composes them around one transport call.                 *)
(*                                                                         *)
(* Scheduling follows the JavaScript event loop.  Transport completions    *)
(* and timers are macrotasks; promise reactions (the finally callback of   *)
(* processQueue, the continuation of fetch after its await) are microtasks *)
(* and all of them run before the next macrotask.                          *)
(***************************************************************************)
EXTENDS Integers, Sequences, FiniteSets, TLC

\* ------------------------------------------------------------------------
\* Bounds of the model
\* ------------------------------------------------------------------------
NumCalls == 3
MaxConcurrentBound == 2
MaxSizeBound == 2
MaxNow == 2000
ClockSteps == {1000}
TtlChoices == {1}

Calls == 1..NumCalls

\* ------------------------------------------------------------------------
\* Generic helpers
\* ------------------------------------------------------------------------
Range(s) == {s[i] : i \in 1..Len(s)}

IndexOf(s, x) == IF x \in Range(s) THEN CHOOSE i \in 1..Len(s) : s[i] = x /\ \A j \in 1..(i-1) : s[j] # x ELSE 0

RemoveAt(s, i) == SubSeq(s, 1, i-1) \o SubSeq(s, i+1, Len(s))

Before(s, a, b) == IndexOf(s, a) > 0 /\ IndexOf(s, b) > 0 /\ IndexOf(s, a) < IndexOf(s, b)

\* ------------------------------------------------------------------------
\* URL / platform classifier (src/src/utils.ts)
\* ------------------------------------------------------------------------
\* A URL string is represented by what `new URL(url)` makes of it: whether it
\* parses, its protocol and its hostname (a sequence of characters).
MkUrl(parses, protocol, hostname) == [parses |-> parses, protocol |-> protocol, hostname |-> hostname]

UrlInstagram == MkUrl(TRUE, "https:", <<"i","n","s","t","a","g","r",".","a","m">>)
UrlFacebook == MkUrl(TRUE, "https:", <<"F","B",".","w","a","t","c","h">>)
UrlYoutube == MkUrl(TRUE, "http:", <<"y","o","u","t","u",".","b","e">>)
UrlFtp == MkUrl(TRUE, "ftp:", <<"y","o","u","t","u",".","b","e">>)
UrlUnsupported == MkUrl(TRUE, "https:", <<"e","x",".","o","r","g">>)

GoodUrls == {UrlInstagram, UrlFacebook, UrlYoutube}
Urls == GoodUrls \cup {UrlFtp, UrlUnsupported}
NoUrl == MkUrl(FALSE, "none", <<>>)

isValidURL(url) == url.parses /\ url.protocol \in {"http:", "https:"}

LowerCase(ch) == CASE ch = "F" -> "f" [] ch = "B" -> "b" [] OTHER -> ch

toLowerCase(s) == [i \in 1..Len(s) |-> LowerCase(s[i])]

\* RegExp.test of an unanchored literal pattern: substring search.
PatternTest(pattern, s) == \E i \in 1..(Len(s) - Len(pattern) + 1) : SubSeq(s, i, i + Len(pattern) - 1) = pattern

PLATFORM_PATTERNS == <<
  [platform |-> "instagram", patterns |-> {<<"i","n","s","t","a","g","r","a","m",".","c","o","m">>, <<"i","n","s","t","a","g","r",".","a","m">>}],
  [platform |-> "facebook", patterns |-> {<<"f","a","c","e","b","o","o","k",".","c","o","m">>, <<"f","b",".","w","a","t","c","h">>, <<"f","b",".","c","o","m">>}],
  [platform |-> "twitter", patterns |-> {<<"t","w","i","t","t","e","r",".","c","o","m">>, <<"x",".","c","o","m">>, <<"t",".","c","o">>}],
  [platform |-> "tiktok", patterns |-> {<<"t","i","k","t","o","k",".","c","o","m">>, <<"v","m",".","t","i","k","t","o","k",".","c","o","m">>}],
  [platform |-> "youtube", patterns |-> {<<"y","o","u","t","u","b","e",".","c","o","m">>, <<"y","o","u","t","u",".","b","e">>, <<"y","o","u","t","u","b","e",".","s","h","o","r","t","s">>}],
  [platform |-> "weibo", patterns |-> {<<"w","e","i","b","o",".","c","o","m">>, <<"w","e","i","b","o",".","c","n">>}],
  [platform |-> "reddit", patterns |-> {<<"r","e","d","d","i","t",".","c","o","m">>, <<"r","e","d","d",".","i","t">>}],
  [platform |-> "bilibili", patterns |-> {<<"b","i","l","i","b","i","l","i",".","c","o","m">>, <<"b","2","3",".","t","v">>}],
  [platform |-> "soundcloud", patterns |-> {<<"s","o","u","n","d","c","l","o","u","d",".","c","o","m">>}],
  [platform |-> "pixiv", patterns |-> {<<"p","i","x","i","v",".","n","e","t">>}],
  [platform |-> "erome", patterns |-> {<<"e","r","o","m","e",".","c","o","m">>}],
  [platform |-> "eporner", patterns |-> {<<"e","p","o","r","n","e","r",".","c","o","m">>}],
  [platform |-> "pornhub", patterns |-> {<<"p","o","r","n","h","u","b",".","c","o","m">>}],
  [platform |-> "rule34video", patterns |-> {<<"r","u","l","e","3","4","v","i","d","e","o",".","c","o","m">>}]
>>

\* First platform of the table one of whose patterns matches; "null" if none.
detectPlatform(url) ==
  IF ~isValidURL(url) THEN "null"
  ELSE LET hostname == toLowerCase(url.hostname)
           hits == {i \in 1..Len(PLATFORM_PATTERNS) : \E p \in PLATFORM_PATTERNS[i].patterns : PatternTest(p, hostname)}
       IN IF hits = {} THEN "null"
          ELSE PLATFORM_PATTERNS[CHOOSE i \in hits : \A j \in hits : i <= j].platform

\* Hostnames of the platforms the README lists, and two short links.
UrlInstagramCom == MkUrl(TRUE, "https:", <<"w","w","w",".","i","n","s","t","a","g","r","a","m",".","c","o","m">>)
UrlRedditCom == MkUrl(TRUE, "https:", <<"w","w","w",".","r","e","d","d","i","t",".","c","o","m">>)
UrlReddIt == MkUrl(TRUE, "https:", <<"r","e","d","d",".","i","t">>)
UrlBilibiliCom == MkUrl(TRUE, "https:", <<"w","w","w",".","b","i","l","i","b","i","l","i",".","c","o","m">>)
UrlSoundcloudCom == MkUrl(TRUE, "https:", <<"s","o","u","n","d","c","l","o","u","d",".","c","o","m">>)
UrlXCom == MkUrl(TRUE, "https:", <<"x",".","c","o","m">>)
UrlTCo == MkUrl(TRUE, "https:", <<"t",".","c","o">>)

\* The platforms that have a pattern matching the hostname of url.
MatchingPlatforms(url) == {PLATFORM_PATTERNS[i].platform : i \in {j \in 1..Len(PLATFORM_PATTERNS) : \E p \in PLATFORM_PATTERNS[j].patterns : PatternTest(p, toLowerCase(url.hostname))}}

\* Classification of the model's URLs, computed once.
PlatformOf == [u \in Urls |-> detectPlatform(u)]

\* ------------------------------------------------------------------------
\* Results: the value a promise settles with
\* ------------------------------------------------------------------------
\* state "fulfilled" carries a response {success, code, data}; state
\* "rejected" carries an error with `code`, `statusCode` and
\* `context.retryAfter` (0 stands for undefined).  The payload of a successful
\* transport response is identified by the call that fetched it.
\* retryAfterHeader is not part of the error object: it records the
\* Retry-After header of the HTTP response the error was made from.
\* issue is data.issues[0] of a legacy success:false body ("" when the list
\* is empty or absent).
\* http is not part of the error object either: it records the HTTP response
\* handleHTTPError made the error from (status 0: none).
NoHttp == [status |-> 0, apiCode |-> "", retryAfter |-> 0]

MkResult(state, success, code, data) == [state |-> state, success |-> success, code |-> code, data |-> data, statusCode |-> 0, retryAfter |-> 0, retryAfterHeader |-> 0, http |-> NoHttp, issue |-> ""]

NoResult == MkResult("none", FALSE, "", 0)
Pending == MkResult("pending", FALSE, "", 0)
Response(success, code, data) == MkResult("fulfilled", success, code, data)
Failure(code) == MkResult("rejected", FALSE, code, 0)

IsSettled(p) == p.state \in {"fulfilled", "rejected"}

\* resolve()/reject() of a promise: only the first settlement counts.
Settle(p, r) == IF p.state = "pending" THEN r ELSE p

\* What the request body (FetchtiumClient.request) can produce for call c.
TransportResults(c) == {Response(TRUE, "", c), Response(FALSE, "PRIVATE_CONTENT", 0), Failure("NETWORK_ERROR")}

\* ------------------------------------------------------------------------
\* Retry: configuration, errors with a status code
\* ------------------------------------------------------------------------
MaxRetriesBound == 2
Sessions == {1, 2}
RetryDelays == {1000}
Multipliers == {2}
RetryAfterHeaders == {0, 3}

\* DEFAULT_CONFIG.retry.retryableErrors
DefaultRetryableErrors == {"NETWORK_ERROR", "TIMEOUT", "RATE_LIMITED", "INTERNAL_ERROR"}

\* The retry configurations a client is constructed with.
RetryConfigs == [maxRetries : 0..MaxRetriesBound, retryDelay : RetryDelays, backoffMultiplier : Multipliers, retryableErrors : {DefaultRetryableErrors}]

\* The second argument of fetchWithRetry: a partial retry configuration.
NoOverride == <<>>
RetryOverrides == {NoOverride, [maxRetries |-> 1], [retryableErrors |-> {"RATE_LIMITED", "INVALID_URL"}]}

\* Variant: the per-call configuration is ignored.
MergeConfigBaseOnly(base, override) == base

\* { ...this.retryConfig, ...retryConfig }
MergeConfig(base, override) == [f \in DOMAIN base |-> IF f \in DOMAIN override THEN override[f] ELSE base[f]]

\* FetchtiumError.rateLimited(retryAfter): the argument goes into the message
\* and the suggestions only; statusCode is 429 and the context stays empty.
rateLimited(retryAfter) == [Failure("RATE_LIMITED") EXCEPT !.statusCode = 429]

\* handleHTTPError for status 429 with Retry-After header h (0: no header).
handleHTTPError429(h) == [rateLimited(h) EXCEPT !.retryAfterHeader = h]

\* What the request body can produce for a call made by fetchWithRetry.
RetryTransportResults(c) == {Response(TRUE, "", c), Response(FALSE, "INVALID_URL", 0)} \cup {handleHTTPError429(h) : h \in RetryAfterHeaders}

\* Math.pow for the exponents the retry loop produces (attempt - 1 >= 0).
RECURSIVE Pow(_, _)
Pow(b, e) == IF e <= 0 THEN 1 ELSE b * Pow(b, e - 1)

Max(a, b) == IF a >= b THEN a ELSE b

\* fetchWithRetry call s before it is made.  `call` is the fetch call of the
\* current attempt, `calls` all attempts so far, `lastError` and `thrown`
\* name errors by the call that threw them (0: none), `sleeps` the arguments
\* of sleep() so far.
NoRetry == [pc |-> "idle", url |-> NoUrl, config |-> <<>>, override |-> <<>>, attempt |-> 0, call |-> 0, calls |-> <<>>, lastError |-> 0, thrown |-> 0, sleeps |-> <<>>, outcome |-> NoResult]

\* An error context without retry annotation.
NoContext == [retryAttempt |-> 0, maxRetries |-> 0]

\* ------------------------------------------------------------------------
\* merge and convert
\* ------------------------------------------------------------------------
Ops == {1}

\* A URL that `new URL()` rejects.
UrlUnparsable == MkUrl(FALSE, "none", <<"y","o","u","t","u",".","b","e">>)

OpUrls == {UrlYoutube, UrlInstagram, UrlFtp, UrlUnsupported, UrlUnparsable}
\* options.quality of merge; "" stands for a missing value.
Qualities == {"", "720p"}
\* options.format of convert; "" stands for a missing value.
Formats == {"", "mp3", "m4a", "wav"}

\* merge/convert call k before it is made.  `requested` says whether the
\* call has handed a request to the transport.
NoDirect == [pc |-> "idle", kind |-> "", url |-> NoUrl, option |-> "", requested |-> FALSE, outcome |-> NoResult]

\* What the transport can produce for merge/convert call k: the file, a
\* status that is not ok, or an abort by the timeout.
DirectResults(k) == {Response(TRUE, "", k), [Failure("INTERNAL_ERROR") EXCEPT !.statusCode = 500], Failure("TIMEOUT")}

\* The URLs given to fetch and fetchWithRetry next to merge and convert.
FetchOpUrls == {UrlYoutube, UrlFtp, UrlUnsupported, UrlUnparsable}

\* ------------------------------------------------------------------------
\* fetchBatch
\* ------------------------------------------------------------------------
MaxBatchLen == 3
\* options?.concurrency || 3
DefaultConcurrency == 3
BatchUrls == {UrlYoutube, UrlFtp}
\* options.concurrency; 0 stands for a missing (or zero) value.
ConcurrencyOptions == {0, 1, 2}

RECURSIVE SeqsUpTo(_, _)
SeqsUpTo(S, n) == IF n = 0 THEN {<<>>} ELSE SeqsUpTo(S, n - 1) \cup {Append(q, x) : q \in SeqsUpTo(S, n - 1), x \in S}

\* The fetchBatch call before it is made.  `queue` holds the URLs not yet
\* started, `active` the calls of fetch whose promise is in the active array,
\* `item[c]` the state of processUrl for call c ("running", then "fulfilled"
\* or "rejected" until its finally callback has run, then "removed");
\* `raced` is what Promise.race(active) settled with and `winner` the call
\* whose promise settled it, `results` the results array, `started` the calls
\* in the order processUrl made them, `urls` the argument.  What the caller
\* gets: `returned` is the array fetchBatch returned, `thrown` the call whose
\* error it threw (0: none), `attached` the results that error carries.
\* `settled` lists the batch's calls of fetch in the order their promises
\* settled, which is the order their reactions are queued in.
NoBatch == [pc |-> "idle", concurrency |-> 0, stopOnError |-> FALSE, queue |-> <<>>, active |-> <<>>, item |-> [c \in Calls |-> "none"], raced |-> "none", results |-> <<>>, started |-> <<>>, outcome |-> "none", urls |-> <<>>, winner |-> 0, returned |-> <<>>, thrown |-> 0, attached |-> <<>>, settled |-> <<>>]

\* ------------------------------------------------------------------------
\* State
\* ------------------------------------------------------------------------
VARIABLES
  rateLimitConfig,  \* [maxConcurrent]
  cacheConfig,      \* [enabled, ttl (seconds), maxSize]
  cache,            \* the Map, as its entries in insertion order
  activeRequests,   \* this.activeRequests
  requestQueue,     \* this.requestQueue: queued calls, oldest first
  timers,           \* live queue timers in creation order (all have delay queueTimeout)
  now,              \* Date.now(), in ms
  url,              \* url[c]: argument of call c
  fetchpc,          \* fetchpc[c]: "idle" | "awaiting" | "done"
  gate,             \* gate[c]: "none" | "queued" | "direct" | "admitted" | "finishing" | "released" | "removed"
  promise,          \* promise[c]: the promise executeWithRateLimit returned to call c
  outcome,          \* outcome[c]: what fetch settled with
  bodyResult,       \* bodyResult[c]: what the request body of c produced
  startOrder,       \* calls in the order their request body started (one entry per transport call)
  queueOrder,       \* calls in the order they were pushed on requestQueue
  timedOut,         \* calls whose queue timer fired
  cacheLog,         \* the mutations of the Map so far: [op |-> "set" | "delete", url]
  retryConfig,      \* this.retryConfig: [maxRetries, retryDelay, backoffMultiplier, retryableErrors]
  retry,            \* retry[s]: the activation record of fetchWithRetry call s
  errorContext,     \* errorContext[c]: retryAttempt/maxRetries written into the context of the error call c threw
  detected,         \* the calls of detectPlatform made by the application: [url, platform]
  direct,           \* direct[k]: the activation record of merge/convert call k
  batch             \* the activation record of the fetchBatch call

vars == <<rateLimitConfig, cacheConfig, cache, activeRequests, requestQueue, timers, now, url, fetchpc, gate, promise, outcome, bodyResult, startOrder, queueOrder, timedOut, cacheLog, retryConfig, retry, errorContext, detected, direct, batch>>

configVars == <<rateLimitConfig, cacheConfig, retryConfig>>
gateVars == <<activeRequests, requestQueue, timers, gate, startOrder>>
\* State of the callers built on top of fetch.
callerVars == <<retry, errorContext, detected, direct, batch>>
\* State of fetch, its cache and its gate.
fetchVars == <<cache, gateVars, now, url, fetchpc, promise, outcome, bodyResult, queueOrder, timedOut, cacheLog>>

Init ==
  /\ rateLimitConfig \in [maxConcurrent : 0..MaxConcurrentBound]
  /\ cacheConfig \in [enabled : BOOLEAN, ttl : TtlChoices, maxSize : 0..MaxSizeBound]
  /\ cache = <<>>
  /\ activeRequests = 0
  /\ requestQueue = <<>>
  /\ timers = <<>>
  /\ now = 0
  /\ url = [c \in Calls |-> NoUrl]
  /\ fetchpc = [c \in Calls |-> "idle"]
  /\ gate = [c \in Calls |-> "none"]
  /\ promise = [c \in Calls |-> NoResult]
  /\ outcome = [c \in Calls |-> NoResult]
  /\ bodyResult = [c \in Calls |-> NoResult]
  /\ startOrder = <<>>
  /\ queueOrder = <<>>
  /\ timedOut = {}
  /\ cacheLog = <<>>
  /\ retryConfig \in RetryConfigs
  /\ retry = [s \in Sessions |-> NoRetry]
  /\ errorContext = [c \in Calls |-> NoContext]
  /\ detected = <<>>
  /\ direct = [k \in Ops |-> NoDirect]
  /\ batch = NoBatch

\* ------------------------------------------------------------------------
\* Response cache
\* ------------------------------------------------------------------------
generateCacheKey(u) == <<"fetch:", u>>

CacheIndex(entries, key) == IF \E i \in 1..Len(entries) : entries[i].key = key THEN CHOOSE i \in 1..Len(entries) : entries[i].key = key ELSE 0

\* Variant: the expiry comparison is inverted.
IsExpiredInverted(entry, t) == t - entry.timestamp < entry.ttl * 1000

\* Variant: an entry expires already at the age of exactly ttl seconds.
IsExpiredAtTtl(entry, t) == t - entry.timestamp >= entry.ttl * 1000

IsExpired(entry, t) == t - entry.timestamp > entry.ttl * 1000

\* Variant: a hit moves the entry to the end of the Map (least recently used
\* first).
getFromCacheTouching(entries, cfg, u, t) ==
  LET key == generateCacheKey(u)
      i == CacheIndex(entries, key)
  IN IF ~cfg.enabled THEN [hit |-> FALSE, data |-> 0, cache |-> entries]
     ELSE IF i = 0 THEN [hit |-> FALSE, data |-> 0, cache |-> entries]
     ELSE IF IsExpired(entries[i], t) THEN [hit |-> FALSE, data |-> 0, cache |-> RemoveAt(entries, i)]
     ELSE [hit |-> TRUE, data |-> entries[i].data, cache |-> Append(RemoveAt(entries, i), entries[i])]

\* getFromCache: [hit, data, cache after the lookup].
getFromCache(entries, cfg, u, t) ==
  LET key == generateCacheKey(u)
      i == CacheIndex(entries, key)
  IN IF ~cfg.enabled THEN [hit |-> FALSE, data |-> 0, cache |-> entries]
     ELSE IF i = 0 THEN [hit |-> FALSE, data |-> 0, cache |-> entries]
     ELSE IF IsExpired(entries[i], t) THEN [hit |-> FALSE, data |-> 0, cache |-> RemoveAt(entries, i)]
     ELSE [hit |-> TRUE, data |-> entries[i].data, cache |-> entries]

\* The eviction step of setCache: at the size limit, drop the first key.
EvictOldest(entries, cfg) == IF Len(entries) >= cfg.maxSize /\ Len(entries) > 0 THEN Tail(entries) ELSE entries

\* Map.set: an existing key keeps its position, a new key goes last.
MapSet(entries, key, value) ==
  LET i == CacheIndex(entries, key)
      e == [key |-> key, data |-> value.data, timestamp |-> value.timestamp, ttl |-> value.ttl]
  IN IF i = 0 THEN Append(entries, e) ELSE [entries EXCEPT ![i] = e]

\* Variant: setCache stores without looking at cacheConfig.enabled.
setCacheAlways(entries, cfg, u, data, t) == MapSet(EvictOldest(entries, cfg), generateCacheKey(u), [data |-> data, timestamp |-> t, ttl |-> cfg.ttl])

setCache(entries, cfg, u, data, t) ==
  IF ~cfg.enabled THEN entries
  ELSE MapSet(EvictOldest(entries, cfg), generateCacheKey(u), [data |-> data, timestamp |-> t, ttl |-> cfg.ttl])

getCacheStats == [size |-> Len(cache), maxSize |-> cacheConfig.maxSize, enabled |-> cacheConfig.enabled]

\* ------------------------------------------------------------------------
\* Concurrency gate
\* ------------------------------------------------------------------------
Running(c) == gate[c] \in {"direct", "admitted"}

\* A promise reaction is waiting to run: the finally callback of an admitted
\* item, or the continuation of a fetch whose gate promise has settled.
MicrotaskPending ==
  \/ \E c \in Calls : gate[c] = "finishing" \/ (fetchpc[c] = "awaiting" /\ IsSettled(promise[c]))
  \/ \E s \in Sessions : retry[s].pc = "attempting" /\ fetchpc[retry[s].call] = "done"
  \/ batch.pc = "filling"
  \/ batch.pc = "waiting" /\ batch.raced # "none"
  \/ \E c \in Calls : (batch.item[c] = "running" /\ fetchpc[c] = "done") \/ batch.item[c] \in {"fulfilled", "rejected"}

\* fetchBatch is inside its synchronous loop: no reaction runs until it
\* suspends.
InSyncLoop == batch.pc = "filling"

\* Variant: the request body calls the transport a second time.
StartBodyTwice(order, c) == Append(Append(order, c), c)

\* fn() runs the request body of call c: one call of this.request, i.e. one
\* transport call, recorded in startOrder.
StartBody(order, c) == Append(order, c)

\* Variant: the limit test admits one caller too many.
UnderLimitInclusive(active, cfg) == active <= cfg.maxConcurrent

UnderLimit(active, cfg) == active < cfg.maxConcurrent

\* Variant: processQueue takes the newest item (pop) instead of the oldest.
NextItemNewest(q) == Len(q)

\* Which queued item processQueue takes next (Array.shift).
NextItem(q) == 1

\* Variant: item.fn() starts the body without clearing the queue timer.
AdmitKeepingTimer(st, item) == [st EXCEPT !.active = st.active + 1, !.gate[item] = "admitted", !.startOrder = StartBody(st.startOrder, item)]

\* item.fn(): clearTimeout, then the request body starts.
Admit(st, item) == [st EXCEPT !.active = st.active + 1, !.gate[item] = "admitted", !.timers = SelectSeq(st.timers, LAMBDA x : x # item), !.startOrder = StartBody(st.startOrder, item)]

RECURSIVE processQueue(_)
processQueue(st) ==
  IF Len(st.q) > 0 /\ UnderLimit(st.active, rateLimitConfig)
  THEN LET i == NextItem(st.q) IN processQueue(Admit([st EXCEPT !.q = RemoveAt(st.q, i)], st.q[i]))
  ELSE st

GateState == [q |-> requestQueue, active |-> activeRequests, gate |-> gate, timers |-> timers, startOrder |-> startOrder]

\* Variant: the slot is released but the queue is not looked at.
ReleaseOnly(st, c) == [st EXCEPT !.active = st.active - 1, !.gate[c] = "released"]

\* The finally block of a finished task c: release the slot, then processQueue.
Release(st, c) == processQueue([st EXCEPT !.active = st.active - 1, !.gate[c] = "released"])

SetGate(st) ==
  /\ requestQueue' = st.q
  /\ activeRequests' = st.active
  /\ gate' = st.gate
  /\ timers' = st.timers
  /\ startOrder' = st.startOrder

\* Variant: the stats count the running calls among the queued ones.
getRateLimitStatsMixed == [activeRequests |-> activeRequests, queuedRequests |-> Len(requestQueue) + activeRequests, maxConcurrent |-> rateLimitConfig.maxConcurrent]

getRateLimitStats == [activeRequests |-> activeRequests, queuedRequests |-> Len(requestQueue), maxConcurrent |-> rateLimitConfig.maxConcurrent]

\* ------------------------------------------------------------------------
\* Operations
\* ------------------------------------------------------------------------
\* fetch without a gate passage: settles at once with result r.
FetchSettlesAtOnce(c, r) ==
  /\ fetchpc' = [fetchpc EXCEPT ![c] = "done"]
  /\ outcome' = [outcome EXCEPT ![c] = r]
  /\ UNCHANGED <<gateVars, promise, queueOrder>>

\* Variant: the caller is queued without a timer.
ArmTimerNever(ts, c) == ts

\* setTimeout(..., queueTimeout) for the caller about to be queued.
ArmTimer(ts, c) == Append(ts, c)

\* executeWithRateLimit up to its first suspension: take a slot and start the
\* request body, or push the caller on the queue behind a timer.
EnterGate(c) ==
  /\ fetchpc' = [fetchpc EXCEPT ![c] = "awaiting"]
  /\ promise' = [promise EXCEPT ![c] = Pending]
  /\ IF UnderLimit(activeRequests, rateLimitConfig)
     THEN /\ activeRequests' = activeRequests + 1
          /\ gate' = [gate EXCEPT ![c] = "direct"]
          /\ startOrder' = StartBody(startOrder, c)
          /\ UNCHANGED <<requestQueue, timers, queueOrder>>
     ELSE /\ requestQueue' = Append(requestQueue, c)
          /\ timers' = ArmTimer(timers, c)
          /\ gate' = [gate EXCEPT ![c] = "queued"]
          /\ queueOrder' = Append(queueOrder, c)
          /\ UNCHANGED <<activeRequests, startOrder>>
  /\ UNCHANGED outcome

\* client.fetch(u), up to its first suspension.  Calls are numbered in the
\* order they are made.  Caller code runs in a macrotask or in a reaction to
\* a settled fetch, so the client's own reactions have run by then;
\* fetchBatch calls from inside its loop.
FetchCall(c, u) ==
  /\ fetchpc[c] = "idle"
  /\ \A d \in Calls : d < c => fetchpc[d] # "idle"
  /\ url' = [url EXCEPT ![c] = u]
  /\ IF ~isValidURL(u)
     THEN FetchSettlesAtOnce(c, Failure("INVALID_URL")) /\ UNCHANGED <<cache, cacheLog>>
     ELSE IF PlatformOf[u] = "null"
     THEN FetchSettlesAtOnce(c, Failure("UNSUPPORTED_PLATFORM")) /\ UNCHANGED <<cache, cacheLog>>
     ELSE LET cached == getFromCache(cache, cacheConfig, u, now)
          IN /\ cache' = cached.cache
             /\ cacheLog' = IF cached.cache # cache THEN Append(cacheLog, [op |-> "delete", url |-> u]) ELSE cacheLog
             /\ IF cached.hit
                THEN FetchSettlesAtOnce(c, Response(TRUE, "", cached.data))
                ELSE EnterGate(c)
  /\ UNCHANGED <<configVars, now, bodyResult, timedOut>>

\* client.fetch(u) called by the application itself.
Fetch(c, u) == ~MicrotaskPending /\ FetchCall(c, u) /\ UNCHANGED callerVars

\* The request body of a running call completes with result r (a macrotask:
\* the transport's response or failure arrives).  On the immediate path the
\* finally block runs in the same continuation; on the queued path item.fn
\* settles the caller's promise and the finally callback is a later reaction.
BodyComplete(c, r) ==
  /\ Running(c)
  /\ ~MicrotaskPending
  /\ bodyResult' = [bodyResult EXCEPT ![c] = r]
  /\ promise' = [promise EXCEPT ![c] = Settle(promise[c], r)]
  /\ IF gate[c] = "direct"
     THEN SetGate(Release(GateState, c))
     ELSE /\ gate' = [gate EXCEPT ![c] = "finishing"]
          /\ UNCHANGED <<activeRequests, requestQueue, timers, startOrder>>
  /\ UNCHANGED <<configVars, callerVars, cache, now, url, fetchpc, outcome, queueOrder, timedOut, cacheLog>>

\* The finally callback processQueue attached to an admitted item.
RunFinally(c) ==
  /\ gate[c] = "finishing"
  /\ ~InSyncLoop
  /\ SetGate(Release(GateState, c))
  /\ UNCHANGED <<configVars, callerVars, cache, now, url, fetchpc, promise, outcome, bodyResult, queueOrder, timedOut, cacheLog>>

\* FetchtiumError.serverError(message, statusCode).
serverError(status) == [Failure("INTERNAL_ERROR") EXCEPT !.statusCode = status]

\* FetchtiumError.fromAPIError(errorBody.error, status) and
\* new FetchtiumError(code, message, {statusCode}).
StatusError(code, status) == [Failure(code) EXCEPT !.statusCode = status]

\* handleHTTPError(response): resp.apiCode is errorBody.error.code ("" when the
\* body has no error object or is not JSON), resp.retryAfter the Retry-After
\* header (0: absent).
handleHTTPError(resp) ==
  LET error == CASE resp.status = 400 -> IF resp.apiCode # "" THEN StatusError(resp.apiCode, 400) ELSE StatusError("BAD_REQUEST", 400)
                 [] resp.status = 401 -> StatusError("UNAUTHORIZED", 401)
                 [] resp.status = 403 -> IF resp.apiCode # "" THEN StatusError(resp.apiCode, 403) ELSE StatusError("FORBIDDEN", 403)
                 [] resp.status = 404 -> StatusError("CONTENT_NOT_FOUND", 404)
                 [] resp.status = 429 -> handleHTTPError429(resp.retryAfter)
                 [] resp.status \in {500, 502, 503, 504} -> serverError(resp.status)
                 [] OTHER -> IF resp.apiCode # "" THEN StatusError(resp.apiCode, resp.status) ELSE serverError(resp.status)
  IN [error EXCEPT !.http = resp]

\* Variant: the timer callback rejects but leaves the item in the queue.
LeaveInQueue(q, c) == q

\* What the timer callback does to the queue: findIndex by reject, splice.
RemoveFromQueue(q, c) == IF IndexOf(q, c) # 0 THEN RemoveAt(q, IndexOf(q, c)) ELSE q

\* The queue timer of call c fires (timers of equal delay fire in creation
\* order): reject with TIMEOUT, then remove the item from the queue.
QueueTimeout(c) ==
  /\ Len(timers) > 0 /\ Head(timers) = c
  /\ ~MicrotaskPending
  /\ timers' = Tail(timers)
  /\ promise' = [promise EXCEPT ![c] = Settle(promise[c], Failure("TIMEOUT"))]
  /\ requestQueue' = RemoveFromQueue(requestQueue, c)
  /\ gate' = [gate EXCEPT ![c] = IF gate[c] = "queued" /\ c \notin Range(requestQueue') THEN "removed" ELSE gate[c]]
  /\ timedOut' = timedOut \cup {c}
  /\ UNCHANGED <<configVars, callerVars, cache, activeRequests, now, url, fetchpc, outcome, bodyResult, startOrder, queueOrder, cacheLog>>

\* The error fetch throws for a response with success: false.
\* The literal of mapIssueToErrorCode.
issueMap == [login_required |-> "LOGIN_REQUIRED", checkpoint |-> "CHECKPOINT_REQUIRED", cookies_required |-> "COOKIE_REQUIRED", no_healthy_cookies |-> "COOKIE_REQUIRED", all_cookies_failed |-> "COOKIE_REQUIRED", no_media |-> "NO_MEDIA_FOUND", private |-> "PRIVATE_CONTENT", private_or_friends |-> "PRIVATE_CONTENT", age_restricted |-> "AGE_RESTRICTED", content_removed |-> "CONTENT_REMOVED", story_expired |-> "STORY_EXPIRED", rate_limited |-> "RATE_LIMITED", invalid_url |-> "INVALID_URL", unsupported_platform |-> "UNSUPPORTED_PLATFORM", parse_error |-> "PARSE_ERROR"]

\* The all-lower-case property names an object literal inherits from
\* Object.prototype; their values are a function and an object.
InheritedKeys == {"constructor", "__proto__"}

\* String.prototype.toLowerCase on the issue strings of the model.
issueToLowerCase(issue) == CASE issue = "PRIVATE" -> "private" [] issue = "Rate_Limited" -> "rate_limited" [] OTHER -> issue

\* issueMap[key] || 'API_ERROR': own properties first, then the prototype
\* chain (a truthy value that is no error code), else undefined.
Lookup(key) == IF key \in DOMAIN issueMap THEN issueMap[key] ELSE IF key \in InheritedKeys THEN "[inherited]" ELSE "API_ERROR"

mapIssueToErrorCode(issue) == Lookup(issueToLowerCase(issue))

\* The error fetch throws for a response with success: false: the new format
\* carries the code, the legacy format the issue list.
ResponseError(r) == IF r.code # "" THEN Failure(r.code) ELSE Failure(mapIssueToErrorCode(IF r.issue = "" THEN "API_ERROR" ELSE r.issue))

\* Variant: the success flag of the body is not looked at.
IsErrorResponseNever(r) == FALSE

\* if (!response.success)
IsErrorResponse(r) == ~r.success

\* fetch resumes after `await this.executeWithRateLimit(...)`: rethrow, or
\* turn a success:false body into an error, or cache and return the response.
FetchResume(c) ==
  /\ fetchpc[c] = "awaiting"
  /\ IsSettled(promise[c])
  /\ gate[c] # "finishing"
  /\ ~InSyncLoop
  /\ fetchpc' = [fetchpc EXCEPT ![c] = "done"]
  /\ IF promise[c].state = "rejected"
     THEN outcome' = [outcome EXCEPT ![c] = promise[c]] /\ UNCHANGED <<cache, cacheLog>>
     ELSE IF IsErrorResponse(promise[c])
     THEN outcome' = [outcome EXCEPT ![c] = ResponseError(promise[c])] /\ UNCHANGED <<cache, cacheLog>>
     ELSE /\ cache' = setCache(cache, cacheConfig, url[c], promise[c].data, now)
          /\ cacheLog' = IF cacheConfig.enabled THEN Append(cacheLog, [op |-> "set", url |-> url[c]]) ELSE cacheLog
          /\ outcome' = [outcome EXCEPT ![c] = promise[c]]
  /\ UNCHANGED <<configVars, gateVars, now, url, promise, bodyResult, queueOrder, timedOut>>

\* The continuation of a fetch the application or fetchWithRetry called.
FetchContinue(c) == FetchResume(c) /\ UNCHANGED callerVars

\* The continuation of a fetch that processUrl called: its promise settles
\* and the reaction of processUrl is queued behind those queued before.
BatchFetchContinue(c) ==
  /\ FetchResume(c)
  /\ batch' = [batch EXCEPT !.settled = Append(@, c)]
  /\ UNCHANGED <<retry, errorContext, detected, direct>>

\* Time passes.
Tick(d) ==
  /\ now + d <= MaxNow
  /\ ~MicrotaskPending
  /\ now' = now + d
  /\ UNCHANGED <<configVars, callerVars, cache, gateVars, url, fetchpc, promise, outcome, bodyResult, queueOrder, timedOut, cacheLog>>

\* ------------------------------------------------------------------------
\* fetchWithRetry
\* ------------------------------------------------------------------------
\* The number the next call of fetch gets.
HasFreeCall == \E c \in Calls : fetchpc[c] = "idle"
NextCall == CHOOSE c \in Calls : fetchpc[c] = "idle" /\ \A d \in Calls : d < c => fetchpc[d] # "idle"

\* Variant: the code list is not consulted, every error is retried.
IsRetryableAlways(error, config) == TRUE

\* config.retryableErrors.includes(error.code)
IsRetryable(error, config) == error.code \in config.retryableErrors

\* Variant: the attempt counter is not advanced.
NextAttemptSame(attempt) == attempt

\* attempt++
NextAttempt(attempt) == attempt + 1

\* Variant: the exponent is the number of the coming attempt.
BackoffDelayLate(config, attempt) == config.retryDelay * Pow(config.backoffMultiplier, attempt)

\* config.retryDelay * Math.pow(config.backoffMultiplier, attempt - 1), with
\* attempt already advanced.
BackoffDelay(config, attempt) == config.retryDelay * Pow(config.backoffMultiplier, attempt - 1)

\* The argument of sleep(): the server's hint is honoured when the error has
\* status 429 and carries context.retryAfter.
SleepTime(error, delay) ==
  IF error.statusCode = 429 /\ error.retryAfter # 0
  THEN Max(delay, error.retryAfter * 1000)
  ELSE delay

\* Variant: fetchWithRetry does not validate before its loop.
RejectedUpFrontNever(u) == FALSE

\* this.validateURL(url) at the top of fetchWithRetry throws.
RejectedUpFront(u) == ~isValidURL(u)

\* fetchWithRetry(u, override), up to its first suspension: validate, merge
\* the configuration, enter the loop and make the first call of fetch.
RetryStart(s, u, override) ==
  /\ retry[s].pc = "idle"
  /\ \A t \in Sessions : t < s => retry[t].pc # "idle"
  /\ ~MicrotaskPending
  /\ IF RejectedUpFront(u)
     THEN /\ retry' = [retry EXCEPT ![s] = [@ EXCEPT !.pc = "done", !.url = u, !.outcome = Failure("INVALID_URL")]]
          /\ UNCHANGED <<configVars, fetchVars>>
     ELSE /\ HasFreeCall
          /\ FetchCall(NextCall, u)
          /\ retry' = [retry EXCEPT ![s] = [@ EXCEPT !.pc = "attempting", !.url = u, !.config = MergeConfig(retryConfig, override), !.override = override, !.call = NextCall, !.calls = <<NextCall>>]]
  /\ UNCHANGED <<errorContext, detected, direct, batch>>

\* fetchWithRetry resumes after `await this.fetch(url)`: return the result,
\* or rethrow, or advance the attempt counter and sleep.
RetryHandle(s) ==
  /\ retry[s].pc = "attempting"
  /\ fetchpc[retry[s].call] = "done"
  /\ ~InSyncLoop
  /\ LET r == retry[s]
         c == r.call
         error == outcome[c]
     IN IF error.state = "fulfilled"
        THEN retry' = [retry EXCEPT ![s] = [r EXCEPT !.pc = "done", !.outcome = error]]
        ELSE IF ~IsRetryable(error, r.config) \/ r.attempt >= r.config.maxRetries
        THEN retry' = [retry EXCEPT ![s] = [r EXCEPT !.pc = "done", !.outcome = error, !.lastError = c, !.thrown = c]]
        ELSE LET a == NextAttempt(r.attempt)
             IN retry' = [retry EXCEPT ![s] = [r EXCEPT !.pc = "sleeping", !.lastError = c, !.attempt = a, !.sleeps = Append(r.sleeps, SleepTime(error, BackoffDelay(r.config, a)))]]
  /\ UNCHANGED <<configVars, fetchVars, errorContext, detected, direct, batch>>

\* Variant: the annotation is written into every error the call has caught.
AnnotateEveryError(ctx, r) == [c \in Calls |-> IF c \in Range(r.calls) THEN [retryAttempt |-> r.attempt, maxRetries |-> r.config.maxRetries] ELSE ctx[c]]

\* error.context.retryAttempt = attempt; error.context.maxRetries =
\* config.maxRetries, on the error of the attempt just slept on.
Annotate(ctx, r) == [ctx EXCEPT ![r.call] = [retryAttempt |-> r.attempt, maxRetries |-> r.config.maxRetries]]

\* The sleep timer fires: annotate the caught error, test the loop condition
\* and make the next call of fetch, or leave the loop and throw lastError.
RetryWake(s) ==
  /\ retry[s].pc = "sleeping"
  /\ ~MicrotaskPending
  /\ errorContext' = Annotate(errorContext, retry[s])
  /\ UNCHANGED <<detected, direct, batch>>
  /\ IF retry[s].attempt <= retry[s].config.maxRetries
     THEN /\ HasFreeCall
          /\ FetchCall(NextCall, retry[s].url)
          /\ retry' = [retry EXCEPT ![s] = [@ EXCEPT !.pc = "attempting", !.call = NextCall, !.calls = Append(@, NextCall)]]
     ELSE /\ retry' = [retry EXCEPT ![s] = [@ EXCEPT !.pc = "done", !.outcome = outcome[retry[s].lastError], !.thrown = retry[s].lastError]]
          /\ UNCHANGED <<configVars, fetchVars>>

\* ------------------------------------------------------------------------
\* merge and convert
\* ------------------------------------------------------------------------
\* Variant: merge does not look at options.quality.
mergeValidationNoQuality(u, quality) ==
  IF ~isValidURL(u) THEN "INVALID_URL"
  ELSE IF detectPlatform(u) # "youtube" THEN "UNSUPPORTED_PLATFORM"
  ELSE ""

\* The checks at the top of merge: the code of the error thrown, "" if none.
mergeValidation(u, quality) ==
  IF ~isValidURL(u) THEN "INVALID_URL"
  ELSE IF detectPlatform(u) # "youtube" THEN "UNSUPPORTED_PLATFORM"
  ELSE IF quality = "" THEN "BAD_REQUEST"
  ELSE ""

\* Variant: convert passes any format on to the server.
convertValidationAnyFormat(u, format) ==
  IF ~isValidURL(u) THEN "INVALID_URL"
  ELSE IF detectPlatform(u) = "null" THEN "UNSUPPORTED_PLATFORM"
  ELSE ""

\* The checks at the top of convert; a missing format means mp3.
convertValidation(u, format) ==
  IF ~isValidURL(u) THEN "INVALID_URL"
  ELSE IF detectPlatform(u) = "null" THEN "UNSUPPORTED_PLATFORM"
  ELSE LET f == IF format = "" THEN "mp3" ELSE format
       IN IF f # "mp3" /\ f # "m4a" THEN "BAD_REQUEST" ELSE ""

\* Variant: the request of merge/convert takes a slot of the gate.
StartDirectGated(k, kind, u, option, code) ==
  /\ direct[k].pc = "idle"
  /\ \A j \in Ops : j < k => direct[j].pc # "idle"
  /\ ~MicrotaskPending
  /\ direct' = [direct EXCEPT ![k] =
       IF code # ""
       THEN [pc |-> "done", kind |-> kind, url |-> u, option |-> option, requested |-> FALSE, outcome |-> Failure(code)]
       ELSE [pc |-> "awaiting", kind |-> kind, url |-> u, option |-> option, requested |-> TRUE, outcome |-> NoResult]]
  /\ activeRequests' = IF code # "" THEN activeRequests ELSE activeRequests + 1
  /\ UNCHANGED <<configVars, cache, requestQueue, timers, gate, startOrder, now, url, fetchpc, promise, outcome, bodyResult, queueOrder, timedOut, cacheLog, retry, errorContext, detected, batch>>

\* merge/convert up to the first suspension: throw the validation error, or
\* hand the request to the transport (not through the gate, not through the
\* cache).
StartDirect(k, kind, u, option, code) ==
  /\ direct[k].pc = "idle"
  /\ \A j \in Ops : j < k => direct[j].pc # "idle"
  /\ ~MicrotaskPending
  /\ direct' = [direct EXCEPT ![k] =
       IF code # ""
       THEN [pc |-> "done", kind |-> kind, url |-> u, option |-> option, requested |-> FALSE, outcome |-> Failure(code)]
       ELSE [pc |-> "awaiting", kind |-> kind, url |-> u, option |-> option, requested |-> TRUE, outcome |-> NoResult]]
  /\ UNCHANGED <<configVars, fetchVars, retry, errorContext, detected, batch>>

\* client.merge({url: u, quality})
Merge(k, u, quality) == StartDirect(k, "merge", u, quality, mergeValidation(u, quality))

\* client.convert({url: u, format})
Convert(k, u, format) == StartDirect(k, "convert", u, format, convertValidation(u, format))

\* The transport answers merge/convert call k with r.
DirectComplete(k, r) ==
  /\ direct[k].pc = "awaiting"
  /\ ~MicrotaskPending
  /\ direct' = [direct EXCEPT ![k] = [@ EXCEPT !.pc = "done", !.outcome = r]]
  /\ UNCHANGED <<configVars, fetchVars, retry, errorContext, detected, batch>>

\* ------------------------------------------------------------------------
\* fetchBatch
\* ------------------------------------------------------------------------
\* fetchBatch(urls, {concurrency, stopOnError}) up to its loop.
BatchStart(urls, concurrency, stopOnError) ==
  /\ batch.pc = "idle"
  /\ ~MicrotaskPending
  /\ batch' = [NoBatch EXCEPT !.pc = "filling", !.concurrency = IF concurrency = 0 THEN DefaultConcurrency ELSE concurrency, !.stopOnError = stopOnError, !.queue = urls, !.urls = urls]
  /\ UNCHANGED <<configVars, fetchVars, retry, errorContext, detected, direct>>

\* Variant: the loop starts a further URL when the active array is full.
HasRoomInclusive(b) == Len(b.active) <= b.concurrency

\* active.length < config.concurrency
HasRoom(b) == Len(b.active) < b.concurrency

\* One round of the inner loop: shift a URL, call processUrl (which calls
\* fetch at once) and push its promise on the active array.
BatchFill ==
  /\ batch.pc = "filling"
  /\ HasRoom(batch) /\ batch.queue # <<>>
  /\ HasFreeCall
  /\ FetchCall(NextCall, Head(batch.queue))
  /\ batch' = [batch EXCEPT !.queue = Tail(@), !.active = Append(@, NextCall), !.item[NextCall] = "running", !.started = Append(@, NextCall),
                            !.settled = IF fetchpc'[NextCall] = "done" THEN Append(@, NextCall) ELSE @]
  /\ UNCHANGED <<retry, errorContext, detected, direct>>

\* The inner loop ends: await Promise.race(active), or return the results
\* when nothing is left, or go round the outer loop again without ever
\* suspending.
BatchSuspend ==
  /\ batch.pc = "filling"
  /\ ~(HasRoom(batch) /\ batch.queue # <<>>)
  /\ batch' = IF Len(batch.active) > 0 THEN [batch EXCEPT !.pc = "waiting", !.raced = "none"]
              ELSE IF batch.queue = <<>> THEN [batch EXCEPT !.pc = "done", !.outcome = "returned", !.returned = batch.results]
              ELSE [batch EXCEPT !.pc = "spinning"]
  /\ UNCHANGED <<configVars, fetchVars, retry, errorContext, detected, direct>>

\* Variant: processUrl rethrows whatever the configuration says.
RethrowsAlways(b, r) == r.state = "rejected"

\* processUrl rethrows the error of its fetch: `if (config.stopOnError) throw error`.
Rethrows(b, r) == r.state = "rejected" /\ b.stopOnError

\* Variant: under stopOnError the error is rethrown before it is recorded.
PushResultUnlessThrown(b, c) == IF Rethrows(b, outcome[c]) THEN b.results ELSE Append(b.results, [url |-> url[c], success |-> outcome[c].state = "fulfilled", call |-> c])

\* Variant: the entry is put in front of the array (unshift).
PushResultFront(b, c) == <<[url |-> url[c], success |-> outcome[c].state = "fulfilled", call |-> c]>> \o b.results

\* results.push({url, success, data | error}): the entry names the call of
\* fetch whose response or error it holds.
PushResult(b, c) == Append(b.results, [url |-> url[c], success |-> outcome[c].state = "fulfilled", call |-> c])

\* The reactions to settled promises run in the order the promises settled:
\* no processUrl whose fetch settled earlier is still waiting to resume.
IsNextReaction(b, c) == \A d \in Calls : (b.item[d] = "running" /\ fetchpc[d] = "done" /\ d # c) => Before(b.settled, c, d)

\* processUrl resumes after `await this.fetch(url)`: push the result, and
\* rethrow the error under stopOnError.
ItemContinue(c) ==
  /\ batch.item[c] = "running"
  /\ fetchpc[c] = "done"
  /\ ~InSyncLoop
  /\ IsNextReaction(batch, c)
  /\ batch' = [batch EXCEPT !.results = PushResult(batch, c),
                            !.item[c] = IF Rethrows(batch, outcome[c]) THEN "rejected" ELSE "fulfilled"]
  /\ UNCHANGED <<configVars, fetchVars, retry, errorContext, detected, direct>>

\* The finally callback of an active promise: splice it out of the active
\* array; the promise then settles and decides a pending race.
ItemFinally(c) ==
  /\ batch.item[c] \in {"fulfilled", "rejected"}
  /\ ~InSyncLoop
  /\ batch' = [batch EXCEPT !.active = SelectSeq(@, LAMBDA x : x # c),
                            !.item[c] = "removed",
                            !.raced = IF batch.pc = "waiting" /\ @ = "none" THEN batch.item[c] ELSE @,
                            !.winner = IF batch.pc = "waiting" /\ batch.raced = "none" THEN c ELSE @]
  /\ UNCHANGED <<configVars, fetchVars, retry, errorContext, detected, direct>>

\* fetchBatch resumes after `await Promise.race(active)`: throw what the race
\* rejected with (the item's error as it is, nothing attached), or go round
\* the loop.
BatchContinue ==
  /\ batch.pc = "waiting"
  /\ batch.raced # "none"
  /\ batch' = IF batch.raced = "rejected" THEN [batch EXCEPT !.pc = "done", !.outcome = "threw", !.raced = "none", !.thrown = batch.winner]
              ELSE [batch EXCEPT !.pc = "filling", !.raced = "none"]
  /\ UNCHANGED <<configVars, fetchVars, retry, errorContext, detected, direct>>

\* ------------------------------------------------------------------------
\* detectPlatform called by the application
\* ------------------------------------------------------------------------
MaxDetect == 2

DetectUrls == {UrlInstagramCom, UrlInstagram, UrlFacebook, UrlYoutube, UrlRedditCom, UrlReddIt, UrlBilibiliCom, UrlSoundcloudCom, UrlXCom, UrlTCo, UrlUnsupported, UrlFtp}

\* detectPlatform(u): a synchronous call, the result is recorded.
DetectPlatform(u) ==
  /\ Len(detected) < MaxDetect
  /\ detected' = Append(detected, [url |-> u, platform |-> detectPlatform(u)])
  /\ UNCHANGED <<configVars, fetchVars, retry, errorContext, direct, batch>>

InitDetect == Init /\ rateLimitConfig.maxConcurrent = 1 /\ ~cacheConfig.enabled /\ cacheConfig.maxSize = 0 /\ retryConfig.maxRetries = 0

NextDetect == \E u \in DetectUrls : DetectPlatform(u)

SpecDetect == InitDetect /\ [][NextDetect]_vars

Next ==
  \/ \E c \in Calls, u \in Urls : Fetch(c, u)
  \/ \E c \in Calls : \E r \in TransportResults(c) : BodyComplete(c, r)
  \/ \E c \in Calls : RunFinally(c)
  \/ \E c \in Calls : QueueTimeout(c)
  \/ \E c \in Calls : FetchContinue(c)
  \/ \E d \in ClockSteps : Tick(d)

Spec == Init /\ [][Next]_vars

\* fetchWithRetry on a client with the cache disabled and room for at least
\* one request; all calls of fetch are made by fetchWithRetry.
RetryUrls == {UrlInstagram, UrlFtp, UrlUnsupported}

InitRetry == Init /\ ~cacheConfig.enabled /\ cacheConfig.maxSize = 0 /\ rateLimitConfig.maxConcurrent >= 1

NextRetry ==
  \/ \E s \in Sessions, u \in RetryUrls, o \in RetryOverrides : RetryStart(s, u, o)
  \/ \E c \in Calls : \E r \in RetryTransportResults(c) : BodyComplete(c, r)
  \/ \E c \in Calls : RunFinally(c)
  \/ \E c \in Calls : QueueTimeout(c)
  \/ \E c \in Calls : FetchContinue(c)
  \/ \E s \in Sessions : RetryHandle(s)
  \/ \E s \in Sessions : RetryWake(s)

SpecRetry == InitRetry /\ [][NextRetry]_vars

\* All four operations that take a URL, on a client with the cache enabled
\* and a gate of one.
InitOps == Init /\ cacheConfig.enabled /\ cacheConfig.maxSize = MaxSizeBound /\ rateLimitConfig.maxConcurrent = 1 /\ retryConfig.maxRetries = 0

\* What the request body can produce in this setting.
OpsTransportResults(c) == {Response(TRUE, "", c), Failure("NETWORK_ERROR")}

NextOps ==
  \/ \E c \in Calls, u \in FetchOpUrls : Fetch(c, u)
  \/ \E c \in Calls : \E r \in OpsTransportResults(c) : BodyComplete(c, r)
  \/ \E c \in Calls : RunFinally(c)
  \/ \E c \in Calls : QueueTimeout(c)
  \/ \E c \in Calls : FetchContinue(c)
  \/ \E u \in FetchOpUrls : RetryStart(1, u, NoOverride)
  \/ RetryHandle(1)
  \/ \E k \in Ops, u \in OpUrls, q \in Qualities : Merge(k, u, q)
  \/ \E k \in Ops, u \in OpUrls, f \in Formats : Convert(k, u, f)
  \/ \E k \in Ops : \E r \in DirectResults(k) : DirectComplete(k, r)

SpecOps == InitOps /\ [][NextOps]_vars

\* fetchBatch on a client with the cache disabled; all calls of fetch are
\* made by the batch.
InitBatch == Init /\ ~cacheConfig.enabled /\ cacheConfig.maxSize = 0 /\ rateLimitConfig.maxConcurrent >= 1 /\ retryConfig.maxRetries = 0

NextBatch ==
  \/ \E urls \in SeqsUpTo(BatchUrls, MaxBatchLen), c \in ConcurrencyOptions, stop \in BOOLEAN : BatchStart(urls, c, stop)
  \/ BatchFill
  \/ BatchSuspend
  \/ \E c \in Calls : ItemContinue(c)
  \/ \E c \in Calls : ItemFinally(c)
  \/ BatchContinue
  \/ \E c \in Calls : \E r \in OpsTransportResults(c) : BodyComplete(c, r)
  \/ \E c \in Calls : RunFinally(c)
  \/ \E c \in Calls : QueueTimeout(c)
  \/ \E c \in Calls : BatchFetchContinue(c)

SpecBatch == InitBatch /\ [][NextBatch]_vars

\* fetchBatch on a client with the cache enabled.
InitBatchCache == Init /\ cacheConfig.enabled /\ cacheConfig.maxSize = MaxSizeBound /\ rateLimitConfig.maxConcurrent >= 1 /\ retryConfig.maxRetries = 0

SpecBatchCache == InitBatchCache /\ [][NextBatch]_vars

\* The event loop runs every reaction that is due, every request ends (with
\* a response, a failure or the abort of its own timeout) and every timer
\* that is not cleared fires.
BatchFairness ==
  /\ WF_vars(BatchFill) /\ WF_vars(BatchSuspend) /\ WF_vars(BatchContinue)
  /\ \A c \in Calls : WF_vars(ItemContinue(c)) /\ WF_vars(ItemFinally(c))
  /\ \A c \in Calls : WF_vars(\E r \in OpsTransportResults(c) : BodyComplete(c, r))
  /\ \A c \in Calls : WF_vars(RunFinally(c)) /\ WF_vars(BatchFetchContinue(c)) /\ WF_vars(QueueTimeout(c))

SpecBatchCacheFair == SpecBatchCache /\ BatchFairness

\* fetchBatch with any integer as its concurrency option, a negative one
\* included.
AnyConcurrencyOptions == {-1, 0, 1, 2}

NextBatchAny ==
  \/ \E urls \in SeqsUpTo(BatchUrls, MaxBatchLen), c \in AnyConcurrencyOptions, stop \in BOOLEAN : BatchStart(urls, c, stop)
  \/ BatchFill
  \/ BatchSuspend
  \/ \E c \in Calls : ItemContinue(c)
  \/ \E c \in Calls : ItemFinally(c)
  \/ BatchContinue
  \/ \E c \in Calls : \E r \in OpsTransportResults(c) : BodyComplete(c, r)
  \/ \E c \in Calls : RunFinally(c)
  \/ \E c \in Calls : QueueTimeout(c)
  \/ \E c \in Calls : BatchFetchContinue(c)

SpecBatchAnyFair == InitBatch /\ [][NextBatchAny]_vars /\ BatchFairness

\* Plain fetch under every retry configuration, with a transport that fails
\* in each of the retryable ways.
PlainTransportResults(c) == {Response(TRUE, "", c), Failure("NETWORK_ERROR"), Failure("TIMEOUT"), rateLimited(0), serverError(500)}

PlainUrls == {UrlYoutube, UrlFtp}

InitPlain == Init /\ ~cacheConfig.enabled /\ cacheConfig.maxSize = 0 /\ rateLimitConfig.maxConcurrent >= 1

NextPlain ==
  \/ \E c \in Calls, u \in PlainUrls : Fetch(c, u)
  \/ \E c \in Calls : \E r \in PlainTransportResults(c) : BodyComplete(c, r)
  \/ \E c \in Calls : RunFinally(c)
  \/ \E c \in Calls : QueueTimeout(c)
  \/ \E c \in Calls : FetchContinue(c)

SpecPlain == InitPlain /\ [][NextPlain]_vars

\* Plain fetch against a server that answers with HTTP error statuses, with
\* and without an error object in the body.
HttpStatuses == {400, 401, 403, 404, 418, 429, 500, 501, 503, 599}
ApiCodes == {"", "QUOTA_EXCEEDED"}
HttpResponses == {resp \in [status : HttpStatuses, apiCode : ApiCodes, retryAfter : RetryAfterHeaders] : resp.status # 429 => resp.retryAfter = 0}
HttpTransportResults(c) == {Response(TRUE, "", c)} \cup {handleHTTPError(resp) : resp \in HttpResponses}
HttpCalls == {1, 2}

InitHttp == Init /\ ~cacheConfig.enabled /\ cacheConfig.maxSize = 0 /\ rateLimitConfig.maxConcurrent >= 1 /\ retryConfig.maxRetries = 0

NextHttp ==
  \/ \E c \in HttpCalls : Fetch(c, UrlYoutube)
  \/ \E c \in HttpCalls : \E r \in HttpTransportResults(c) : BodyComplete(c, r)
  \/ \E c \in HttpCalls : RunFinally(c)
  \/ \E c \in HttpCalls : QueueTimeout(c)
  \/ \E c \in HttpCalls : FetchContinue(c)

SpecHttp == InitHttp /\ [][NextHttp]_vars

\* Plain fetch against a backend that answers success: false in the legacy
\* format, with one issue string or none.
Issues == DOMAIN issueMap \cup {"", "PRIVATE", "Rate_Limited", "private_content", "quota", "constructor"}
LegacyFailure(issue) == [Response(FALSE, "", 0) EXCEPT !.issue = issue]
IssueTransportResults(c) == {Response(TRUE, "", c), Response(FALSE, "PRIVATE_CONTENT", 0)} \cup {LegacyFailure(i) : i \in Issues}
IssueCalls == {1, 2}

NextIssue ==
  \/ \E c \in IssueCalls : Fetch(c, UrlYoutube)
  \/ \E c \in IssueCalls : \E r \in IssueTransportResults(c) : BodyComplete(c, r)
  \/ \E c \in IssueCalls : RunFinally(c)
  \/ \E c \in IssueCalls : QueueTimeout(c)
  \/ \E c \in IssueCalls : FetchContinue(c)

SpecIssue == InitHttp /\ [][NextIssue]_vars

\* The gate on its own: a client constructed with the cache disabled.
InitGate == Init /\ ~cacheConfig.enabled /\ cacheConfig.maxSize = 0 /\ retryConfig.maxRetries = 0

SpecGate == InitGate /\ [][Next]_vars

\* Every request body started ends (request() aborts itself after its own
\* timeout), every armed timer that is not cleared fires, and the event loop
\* runs every reaction that is due.
GateFairness ==
  /\ \A c \in Calls : WF_vars(\E r \in TransportResults(c) : BodyComplete(c, r))
  /\ \A c \in Calls : WF_vars(RunFinally(c)) /\ WF_vars(QueueTimeout(c)) /\ WF_vars(FetchContinue(c))

SpecGateFair == SpecGate /\ GateFairness

\* The cache under a fixed gate: caching enabled, the widest gate of the model.
InitCache == Init /\ cacheConfig.enabled /\ rateLimitConfig.maxConcurrent = MaxConcurrentBound /\ retryConfig.maxRetries = 0

SpecCache == InitCache /\ [][Next]_vars

\* The cache against a transport that fails in every way: a success:false
\* body in either format, a network failure, an HTTP error status.
StoreUrls == {UrlYoutube, UrlInstagram, UrlFtp, UrlUnsupported}
StoreTransportResults(c) == {Response(TRUE, "", c), Response(FALSE, "PRIVATE_CONTENT", 0), LegacyFailure("no_media"), Failure("NETWORK_ERROR"), handleHTTPError([status |-> 404, apiCode |-> "", retryAfter |-> 0])}

NextStore ==
  \/ \E c \in Calls, u \in StoreUrls : Fetch(c, u)
  \/ \E c \in Calls : \E r \in StoreTransportResults(c) : BodyComplete(c, r)
  \/ \E c \in Calls : RunFinally(c)
  \/ \E c \in Calls : QueueTimeout(c)
  \/ \E c \in Calls : FetchContinue(c)
  \/ \E d \in ClockSteps : Tick(d)

SpecStore == InitCache /\ [][NextStore]_vars

TypeOK ==
  /\ activeRequests \in Int
  /\ Range(requestQueue) \subseteq Calls
  /\ \A c \in Calls : fetchpc[c] \in {"idle", "awaiting", "done"}
  /\ \A c \in Calls : gate[c] \in {"none", "queued", "direct", "admitted", "finishing", "released", "removed"}

\* ------------------------------------------------------------------------
\* Properties of the concurrency gate
\* ------------------------------------------------------------------------
Issued == {c \in Calls : fetchpc[c] # "idle"}
SlotHolders == {c \in Calls : gate[c] \in {"direct", "admitted", "finishing"}}
WasQueued(c) == c \in Range(queueOrder)
Started(c) == c \in Range(startOrder)

\* C1: in every reachable state the number of request bodies executing inside
\* the gate is between 0 and maxConcurrent: the counter never leaves
\* 0..maxConcurrent and no more bodies run than the counter says.
C1_GateCapacity ==
  /\ 0 <= activeRequests
  /\ activeRequests <= rateLimitConfig.maxConcurrent
  /\ Cardinality({c \in Calls : Running(c)}) <= activeRequests

\* A completion has admitted a queued caller and the gate is full again.
C1_Witness ==
  /\ rateLimitConfig.maxConcurrent = MaxConcurrentBound
  /\ activeRequests = rateLimitConfig.maxConcurrent
  /\ \E c, d \in Calls : gate[c] = "released" /\ gate[d] = "admitted"

\* C2: while none of the calls made so far has completed or timed out, and at
\* least maxConcurrent of them went to the gate, getRateLimitStats reports
\* activeRequests = maxConcurrent and queuedRequests = the number of the rest.
C2_BurstSplitsAtLimit ==
  (/\ Issued # {}
   /\ \A c \in Issued : gate[c] \in {"direct", "queued"}
   /\ Cardinality(Issued) >= rateLimitConfig.maxConcurrent)
  => /\ getRateLimitStats.activeRequests = rateLimitConfig.maxConcurrent
     /\ getRateLimitStats.queuedRequests = Cardinality(Issued) - rateLimitConfig.maxConcurrent

\* All calls of the model made at once against a gate smaller than their number.
C2_Witness ==
  /\ Issued = Calls
  /\ \A c \in Calls : gate[c] \in {"direct", "queued"}
  /\ \A c, d \in Calls : c # d => url[c] # url[d]
  /\ rateLimitConfig.maxConcurrent \in 1..(NumCalls - 1)
  /\ getRateLimitStats.queuedRequests = NumCalls - rateLimitConfig.maxConcurrent

\* C3: the wait queue is served first in, first out: if A was queued before B,
\* neither timed out, and the body of B has started, then the body of A
\* started before it.
C3_QueueServedFifo ==
  \A a, b \in Calls :
    (Before(queueOrder, a, b) /\ a \notin timedOut /\ b \notin timedOut /\ Started(b))
    => Before(startOrder, a, b)

\* Two queued callers have both been admitted.
C3_Witness == \E a, b \in Calls : Before(queueOrder, a, b) /\ Before(startOrder, a, b) /\ timedOut = {}

\* C4: a queued call whose timer fired fails with TIMEOUT, is out of the wait
\* queue from that moment, and is never admitted: its body never starts and
\* it holds no slot.
C4_TimedOutNeverAdmitted ==
  \A c \in timedOut :
    /\ promise[c] = Failure("TIMEOUT")
    /\ c \notin Range(requestQueue)
    /\ ~Started(c)
    /\ c \notin SlotHolders
    /\ fetchpc[c] = "done" => outcome[c] = Failure("TIMEOUT")

\* A call timed out in the queue and a caller queued behind it was admitted
\* by a later processQueue.
C4_Witness == \E c \in timedOut, d \in Calls : fetchpc[c] = "done" /\ Before(queueOrder, c, d) /\ gate[d] = "admitted"

\* What fetch makes of the gate's result r.
FetchOutcomeOf(r) == IF r.state = "rejected" THEN r ELSE IF ~r.success THEN ResponseError(r) ELSE r

\* C5: the queue timeout covers only the wait: a queued caller that has been
\* admitted has no live timer and is never failed by it, and what it settles
\* with is what its request body produced.
C5_TimeoutOnlyWhileWaiting ==
  \A c \in Calls :
    (WasQueued(c) /\ Started(c))
    => /\ c \notin timedOut
       /\ c \notin Range(timers)
       /\ IsSettled(promise[c]) => promise[c] = bodyResult[c]
       /\ fetchpc[c] = "done" => outcome[c] = FetchOutcomeOf(bodyResult[c])

\* A caller that waited in the queue ran to a successful end, while a caller
\* queued behind it timed out in the meantime.
C5_Witness ==
  \E c, d \in Calls :
    /\ WasQueued(c) /\ fetchpc[c] = "done" /\ outcome[c] = Response(TRUE, "", c)
    /\ d \in timedOut /\ Before(queueOrder, c, d)

\* C6: the counter equals the number of calls holding a slot (no slot leaks,
\* none is released twice), and the step in which a task that held a slot
\* releases it, after success or failure, admits the head of the wait queue
\* if there is one.
C6_ReleaseAdmitsHead ==
  /\ [](activeRequests = Cardinality(SlotHolders))
  /\ [][\A c \in Calls :
          (c \in SlotHolders /\ gate'[c] = "released")
          => IF requestQueue = <<>>
             THEN activeRequests' = activeRequests - 1 /\ requestQueue' = <<>>
             ELSE /\ gate'[Head(requestQueue)] = "admitted"
                  /\ requestQueue' = Tail(requestQueue)
                  /\ activeRequests' = activeRequests]_vars

\* A task that failed has released its slot and a queued caller holds it now.
C6_Witness ==
  \E c, d \in Calls :
    /\ gate[c] = "released" /\ bodyResult[c].state = "rejected"
    /\ gate[d] = "admitted" /\ activeRequests = rateLimitConfig.maxConcurrent

\* C7 as stated: for maxConcurrent >= 1, a caller queued before another one
\* settles before it: the call of B never settles while that of A is open.
C7_CompletionInArrivalOrder ==
  [][\A a, b \in Calls :
       (/\ rateLimitConfig.maxConcurrent >= 1
        /\ Before(queueOrder, a, b)
        /\ fetchpc[b] # "done" /\ fetchpc'[b] = "done")
       => fetchpc[a] = "done"]_vars

\* C7 as amended: with maxConcurrent = 1, a caller queued before another one
\* settles before it, provided the later one does not time out in the queue.
C7_CompletionInArrivalOrderSerial ==
  [][\A a, b \in Calls :
       (/\ rateLimitConfig.maxConcurrent = 1
        /\ Before(queueOrder, a, b)
        /\ b \notin timedOut
        /\ fetchpc[b] # "done" /\ fetchpc'[b] = "done")
       => fetchpc[a] = "done"]_vars

\* Behind a gate of one, two queued callers have both run and settled.
C7_Witness ==
  /\ rateLimitConfig.maxConcurrent = 1
  /\ \E a, b \in Calls :
       /\ Before(queueOrder, a, b) /\ timedOut = {}
       /\ fetchpc[a] = "done" /\ fetchpc[b] = "done" /\ Started(a) /\ Started(b)

\* ------------------------------------------------------------------------
\* Properties of the response cache
\* ------------------------------------------------------------------------
\* Call c is made in this step.
Calling(c) == fetchpc[c] = "idle" /\ fetchpc'[c] # "idle"

\* The call made in this step is answered from cache entry e, without the gate.
ServedFromCache(c, e) ==
  /\ fetchpc'[c] = "done"
  /\ outcome'[c] = Response(TRUE, "", e.data)
  /\ gate'[c] = "none"
  /\ cache' = cache
  /\ startOrder' = startOrder

\* The call made in this step finds its entry gone and goes to the gate.
TreatedAsAbsent(c) ==
  /\ CacheIndex(cache', generateCacheKey(url'[c])) = 0
  /\ fetchpc'[c] = "awaiting"
  /\ gate'[c] \in {"direct", "queued"}

\* C8 as stated: a fetch of a URL that has a cache entry is served from it
\* when the entry is younger than ttl seconds, and treats it as absent when
\* its age is ttl seconds or more.
C8_TtlRoundTrip ==
  [][\A c \in Calls :
       (Calling(c) /\ cacheConfig.enabled /\ CacheIndex(cache, generateCacheKey(url'[c])) # 0)
       => LET e == cache[CacheIndex(cache, generateCacheKey(url'[c]))]
          IN IF now - e.timestamp < e.ttl * 1000 THEN ServedFromCache(c, e) ELSE TreatedAsAbsent(c)]_vars

\* The entries stored so far, when nothing else has touched the Map.
OnlyStores == \A i \in 1..Len(cacheLog) : cacheLog[i].op = "set"
DistinctStores == \A i, j \in 1..Len(cacheLog) : i # j => cacheLog[i].url # cacheLog[j].url
HasKey(u) == CacheIndex(cache, generateCacheKey(u)) # 0

\* C9 as stated: after maxSize + 1 distinct URLs have been stored in sequence
\* the cache holds exactly maxSize entries: all but the first one stored.
C9_FifoEvictionAtBound ==
  (cacheConfig.enabled /\ OnlyStores /\ DistinctStores /\ Len(cacheLog) = cacheConfig.maxSize + 1)
  => /\ Len(cache) = cacheConfig.maxSize
     /\ ~HasKey(cacheLog[1].url)
     /\ \A i \in 2..Len(cacheLog) : HasKey(cacheLog[i].url)

\* C10 as stated: the cache never holds more than maxSize entries.
C10_SizeWithinMaxSize == getCacheStats.size <= getCacheStats.maxSize

\* C11: with the cache disabled the Map stays empty, no call is ever answered
\* from it, and every call with a valid, supported URL goes to the gate, also
\* when the same URL was fetched successfully before.
C11_DisabledCacheIsInert ==
  ~cacheConfig.enabled
  => /\ getCacheStats.size = 0
     /\ \A c \in Issued : (isValidURL(url[c]) /\ PlatformOf[url[c]] # "null") => gate[c] # "none"

\* With the cache disabled a URL was fetched successfully and a later call
\* for the same URL went to the gate again.
C11_Witness ==
  /\ ~cacheConfig.enabled
  /\ \E c, d \in Calls :
       /\ c < d /\ url[c] = url[d]
       /\ fetchpc[c] = "done" /\ outcome[c] = Response(TRUE, "", c)
       /\ Started(d)

\* C12: a call that finds an entry younger than its ttl is answered with the
\* stored data in that same step, starts no request body and leaves
\* activeRequests, the wait queue and the timers as they were.
C12_HitSkipsGateAndTransport ==
  [][\A c \in Calls :
       (Calling(c) /\ cacheConfig.enabled /\ CacheIndex(cache, generateCacheKey(url'[c])) # 0)
       => LET e == cache[CacheIndex(cache, generateCacheKey(url'[c]))]
          IN now - e.timestamp < e.ttl * 1000
             => /\ ServedFromCache(c, e)
                /\ activeRequests' = activeRequests
                /\ requestQueue' = requestQueue
                /\ timers' = timers]_vars

\* A call was answered from the cache (with another call's data) while the
\* call before it was still holding a slot of the gate.
C12_Witness ==
  \E c, d, e \in Calls :
    /\ fetchpc[c] = "done" /\ gate[c] = "none" /\ outcome[c] = Response(TRUE, "", d) /\ d # c
    /\ Running(e)

\* ------------------------------------------------------------------------
\* Properties of fetchWithRetry
\* ------------------------------------------------------------------------
Begun(s) == retry[s].pc # "idle"
Finished(s) == retry[s].pc = "done"
Attempts(s) == Len(retry[s].calls)
IsRateLimited(r) == r.state = "rejected" /\ r.code = "RATE_LIMITED"
IsSuccess(r) == r.state = "fulfilled" /\ r.success
\* The request bodies started on behalf of fetchWithRetry call s.
Invocations(s) == {c \in Range(retry[s].calls) : Started(c)}
\* Every attempt so far met a transport that answered RATE_LIMITED or success.
RateLimitedThenSuccess(s) == \A c \in Range(retry[s].calls) : IsRateLimited(bodyResult[c]) \/ IsSuccess(bodyResult[c])

\* C13: against a transport that answers RATE_LIMITED n times and then
\* succeeds, a finished fetchWithRetry either returned the success after n+1
\* transport calls with n <= maxRetries, or threw the RATE_LIMITED error of
\* its last attempt after exactly maxRetries+1 transport calls.
C13_RateLimitedThenSuccess ==
  \A s \in Sessions :
    (Finished(s) /\ Attempts(s) > 0 /\ RateLimitedThenSuccess(s) /\ "RATE_LIMITED" \in retry[s].config.retryableErrors)
    => LET r == retry[s]
           last == r.calls[Len(r.calls)]
       IN /\ Cardinality(Invocations(s)) = Attempts(s)
          /\ \A i \in 1..(Attempts(s) - 1) : IsRateLimited(bodyResult[r.calls[i]])
          /\ \/ r.outcome = Response(TRUE, "", last) /\ Attempts(s) <= r.config.maxRetries + 1
             \/ IsRateLimited(r.outcome) /\ r.outcome = bodyResult[last] /\ r.thrown = last /\ Attempts(s) = r.config.maxRetries + 1

\* One fetchWithRetry returned the success after one RATE_LIMITED answer,
\* another one with maxRetries = 0 threw the RATE_LIMITED error of its only
\* attempt.
C13_Witness ==
  \E s, t \in Sessions :
    /\ Finished(s) /\ Attempts(s) = 2 /\ IsRateLimited(bodyResult[retry[s].calls[1]]) /\ IsSuccess(retry[s].outcome)
    /\ Finished(t) /\ Attempts(t) = 1 /\ retry[t].config.maxRetries = 0 /\ IsRateLimited(retry[t].outcome) /\ Started(retry[t].calls[1])

\* C14: fetchWithRetry never makes more than maxRetries+1 calls of fetch, and
\* the error it throws after its attempts is the error of the last attempt.
C14_BoundedAttemptsLastError ==
  \A s \in Sessions :
    (Begun(s) /\ isValidURL(retry[s].url))
    => /\ retry[s].config.maxRetries >= 0
       /\ Attempts(s) <= retry[s].config.maxRetries + 1
       /\ (Finished(s) /\ retry[s].outcome.state = "rejected")
          => /\ retry[s].thrown = retry[s].calls[Attempts(s)]
             /\ retry[s].outcome = outcome[retry[s].thrown]
             /\ retry[s].outcome.code # ""

\* A fetchWithRetry with maxRetries = 2 threw after three attempts whose
\* errors differ, a retried one among them.
C14_Witness ==
  \E s \in Sessions :
    /\ Finished(s) /\ Attempts(s) = 3 /\ retry[s].config.maxRetries = 2
    /\ retry[s].outcome.state = "rejected"
    /\ outcome[retry[s].calls[1]] # outcome[retry[s].calls[3]]

\* fetchWithRetry call s resumes after an attempt that failed.
HandlesFailure(s) == retry[s].pc = "attempting" /\ retry'[s].pc # "attempting" /\ outcome[retry[s].call].state = "rejected"

\* C15: when an attempt fails with a code outside the effective
\* retryableErrors, fetchWithRetry throws that error in the same step: no
\* sleep, no further call of fetch, no further request body; when it is the
\* first attempt, exactly one attempt was made.
C15_NonRetryableRethrown ==
  /\ [](\A s \in Sessions :
          (Finished(s) /\ Attempts(s) > 0 /\ outcome[retry[s].calls[1]].state = "rejected" /\ outcome[retry[s].calls[1]].code \notin retry[s].config.retryableErrors)
          => Attempts(s) = 1 /\ retry[s].sleeps = <<>>)
  /\ [][\A s \in Sessions :
          (HandlesFailure(s) /\ outcome[retry[s].call].code \notin retry[s].config.retryableErrors)
          => /\ retry'[s].pc = "done"
             /\ retry'[s].outcome = outcome[retry[s].call]
             /\ retry'[s].thrown = retry[s].call
             /\ retry'[s].sleeps = retry[s].sleeps
             /\ retry'[s].calls = retry[s].calls
             /\ startOrder' = startOrder /\ fetchpc' = fetchpc]_vars

\* Under the default retryableErrors a fetchWithRetry threw the server's
\* INVALID_URL answer after its single attempt, which did reach the
\* transport.
C15_Witness ==
  \E s \in Sessions :
    /\ Finished(s) /\ Attempts(s) = 1 /\ Started(retry[s].calls[1])
    /\ retry[s].config.retryableErrors = DefaultRetryableErrors
    /\ retry[s].outcome = Failure("INVALID_URL")

IsInvalidUrlError(r) == r.state = "rejected" /\ r.code = "INVALID_URL"
\* The attempts of s whose failure fetchWithRetry has already looked at.
Handled(s) == {i \in 1..Attempts(s) : i < Attempts(s) \/ retry[s].pc # "attempting"}

\* C16: an INVALID_URL failure is never retried by fetchWithRetry, whatever
\* retryableErrors lists and wherever the failure comes from: neither a sleep
\* nor a further attempt follows it.
C16_InvalidUrlNeverRetried ==
  \A s \in Sessions :
    /\ (Begun(s) /\ ~isValidURL(retry[s].url)) => Finished(s) /\ retry[s].sleeps = <<>> /\ Attempts(s) <= 1
    /\ \A i \in Handled(s) : IsInvalidUrlError(outcome[retry[s].calls[i]]) => Finished(s) /\ i = Attempts(s)

\* C16 as the code has it: a URL the client's own validation rejects ends
\* fetchWithRetry before its loop (no call of fetch, no sleep, nothing
\* started), whatever retryableErrors lists; an INVALID_URL answer of the
\* server is thrown at once exactly when the effective retryableErrors does
\* not list it.
C16_InvalidUrlRetriedOnlyIfListed ==
  \A s \in Sessions :
    /\ (Begun(s) /\ retry[s].url = UrlFtp)
       => /\ Finished(s) /\ retry[s].outcome = Failure("INVALID_URL")
          /\ retry[s].calls = <<>> /\ retry[s].sleeps = <<>>
          /\ \A c \in Calls : url[c] # UrlFtp
    /\ \A i \in Handled(s) :
         (IsInvalidUrlError(outcome[retry[s].calls[i]]) /\ "INVALID_URL" \notin retry[s].config.retryableErrors)
         => Finished(s) /\ i = Attempts(s) /\ retry[s].thrown = retry[s].calls[i]

\* Both cases at once: a fetchWithRetry whose retryableErrors lists
\* INVALID_URL was rejected up front for an ftp URL, and another one threw the
\* server's INVALID_URL answer after its first attempt.
C16_Witness ==
  \E s, t \in Sessions :
    /\ Finished(s) /\ retry[s].url = UrlFtp
    /\ Finished(t) /\ Attempts(t) = 1 /\ Started(retry[t].calls[1]) /\ retry[t].outcome = Failure("INVALID_URL")

\* C17: after a retried HTTP 429 whose response had Retry-After: h, the sleep
\* before the next attempt is max(computed backoff, h * 1000) ms.
C17_RetryAfterHonoured ==
  \A s \in Sessions : \A i \in 1..Len(retry[s].sleeps) :
    LET error == outcome[retry[s].calls[i]]
    IN (error.statusCode = 429 /\ error.retryAfterHeader # 0)
       => retry[s].sleeps[i] = Max(retry[s].config.retryDelay * Pow(retry[s].config.backoffMultiplier, i - 1), error.retryAfterHeader * 1000)

\* C18: after a retried failure without a server hint, the sleep that follows
\* attempt a (counted from 0) is retryDelay * backoffMultiplier^a ms.
C18_ExponentialBackoff ==
  \A s \in Sessions : \A i \in 1..Len(retry[s].sleeps) :
    LET error == outcome[retry[s].calls[i]]
    IN error.retryAfterHeader = 0
       => retry[s].sleeps[i] = retry[s].config.retryDelay * Pow(retry[s].config.backoffMultiplier, i - 1)

\* Two retried failures without a hint: the sleeps were 1000 ms and 2000 ms.
C18_Witness ==
  \E s \in Sessions :
    /\ retry[s].sleeps = <<1000, 2000>>
    /\ outcome[retry[s].calls[1]].retryAfterHeader = 0
    /\ outcome[retry[s].calls[2]].retryAfterHeader = 0

\* ------------------------------------------------------------------------
\* Validation before any request
\* ------------------------------------------------------------------------
\* The requests handed to the transport so far, by fetch and by merge/convert.
TransportCalls == [gated |-> startOrder, direct |-> {k \in Ops : direct[k].requested}]
\* The operation that is being called in this step fails with `code` and
\* touches neither the transport nor the cache nor the gate.
FailsFast(result, code) ==
  /\ result = Failure(code)
  /\ TransportCalls' = TransportCalls
  /\ cache' = cache
  /\ <<activeRequests, requestQueue, timers>>' = <<activeRequests, requestQueue, timers>>
CallingRetry(s) == retry[s].pc = "idle" /\ retry'[s].pc # "idle"
CallingDirect(k) == direct[k].pc = "idle" /\ direct'[k].pc # "idle"
LacksHttpOrParse(u) == ~u.parses \/ u.protocol \notin {"http:", "https:"}

\* C19: a URL that does not parse or is not http/https makes fetch,
\* fetchWithRetry, merge and convert fail with INVALID_URL in the step of the
\* call; an unsupported platform (fetch, convert), a merge URL that is not
\* YouTube, a missing merge quality and a convert format other than mp3/m4a
\* fail likewise with their codes; none of these calls hands a request to the
\* transport or changes the cache or the gate.
C19_ValidationFailsFast ==
  [][/\ \A c \in Calls : Calling(c) =>
          /\ LacksHttpOrParse(url'[c]) => fetchpc'[c] = "done" /\ FailsFast(outcome'[c], "INVALID_URL")
          /\ (~LacksHttpOrParse(url'[c]) /\ detectPlatform(url'[c]) = "null") => fetchpc'[c] = "done" /\ FailsFast(outcome'[c], "UNSUPPORTED_PLATFORM")
     /\ \A s \in Sessions : (CallingRetry(s) /\ LacksHttpOrParse(retry'[s].url)) =>
          /\ retry'[s].pc = "done" /\ FailsFast(retry'[s].outcome, "INVALID_URL")
          /\ fetchpc' = fetchpc
     /\ \A k \in Ops : CallingDirect(k) =>
          LET d == direct'[k]
              fails(code) == d.pc = "done" /\ ~d.requested /\ FailsFast(d.outcome, code)
          IN /\ LacksHttpOrParse(d.url) => fails("INVALID_URL")
             /\ (~LacksHttpOrParse(d.url) /\ d.kind = "merge" /\ detectPlatform(d.url) # "youtube") => fails("UNSUPPORTED_PLATFORM")
             /\ (~LacksHttpOrParse(d.url) /\ d.kind = "merge" /\ detectPlatform(d.url) = "youtube" /\ d.option = "") => fails("BAD_REQUEST")
             /\ (~LacksHttpOrParse(d.url) /\ d.kind = "convert" /\ detectPlatform(d.url) = "null") => fails("UNSUPPORTED_PLATFORM")
             /\ (~LacksHttpOrParse(d.url) /\ d.kind = "convert" /\ detectPlatform(d.url) # "null" /\ d.option \notin {"", "mp3", "m4a"}) => fails("BAD_REQUEST")]_vars

\* While one request held the slot of the gate and the cache held an entry,
\* fetch failed on a URL that does not parse, fetchWithRetry on an ftp URL and
\* convert on the format wav, and the transport has seen the running request
\* and the cached one only.
C19_Witness ==
  /\ activeRequests = 1 /\ Len(cache) = 1 /\ Len(startOrder) = 2
  /\ \E c \in Calls : url[c] = UrlUnparsable /\ outcome[c] = Failure("INVALID_URL")
  /\ retry[1].url = UrlFtp /\ retry[1].outcome = Failure("INVALID_URL") /\ retry[1].calls = <<>>
  /\ \E k \in Ops : direct[k].kind = "convert" /\ direct[k].option = "wav" /\ direct[k].outcome = Failure("BAD_REQUEST") /\ ~direct[k].requested

\* ------------------------------------------------------------------------
\* Properties of fetchBatch
\* ------------------------------------------------------------------------
\* The batch's calls of fetch that have started and not yet settled.
InFlight == {c \in Range(batch.started) : fetchpc[c] = "awaiting"}

\* C20: a fetchBatch with concurrency c >= 1 never has more than c of its
\* calls of fetch in flight.
C20_BatchConcurrencyCap == (batch.pc # "idle" /\ batch.concurrency >= 1) => Cardinality(InFlight) <= batch.concurrency

\* With concurrency 2, two calls of fetch are in flight while a third URL
\* waits in the batch's queue.
C20_Witness == batch.concurrency = 2 /\ Cardinality(InFlight) = 2 /\ Len(batch.queue) = 1

\* The entries of the results array that hold the outcome of call c.
ResultsOf(c) == {i \in 1..Len(batch.results) : batch.results[i].call = c}

\* C21: with stopOnError = false fetchBatch never throws; every input URL is
\* given to fetch at most once and in input order, and when fetchBatch
\* returns each input occurrence has been given to fetch exactly once and the
\* returned list has exactly one entry for it: success with the response of
\* that call, or failure with its error.
C21_EveryUrlOnceAllCollected ==
  (batch.pc # "idle" /\ ~batch.stopOnError)
  => /\ batch.outcome # "threw"
     /\ Len(batch.started) <= Len(batch.urls)
     /\ \A i \in 1..Len(batch.started) : url[batch.started[i]] = batch.urls[i]
     /\ \A i, j \in 1..Len(batch.started) : i # j => batch.started[i] # batch.started[j]
     /\ batch.pc = "done"
        => /\ Len(batch.started) = Len(batch.urls)
           /\ Len(batch.returned) = Len(batch.urls)
           /\ \A c \in Range(batch.started) :
                \E i \in 1..Len(batch.returned) :
                  /\ ResultsOf(c) = {i}
                  /\ batch.returned[i] = [url |-> url[c], success |-> outcome[c].state = "fulfilled", call |-> c]

\* A batch of three URLs with stopOnError = false returned three entries: a
\* failure recorded first and a success after it.
C21_Witness ==
  /\ batch.pc = "done" /\ ~batch.stopOnError /\ Len(batch.urls) = 3 /\ Len(batch.returned) = 3
  /\ ~batch.returned[1].success /\ batch.returned[3].success

\* C22: under stopOnError = true, when fetchBatch throws, the results recorded
\* until then reach the caller: attached to the thrown error or returned.
C22_PartialResultsObtainable ==
  [][(batch.outcome # "threw" /\ batch'.outcome = "threw")
       => (batch.results # <<>> /\ (batch'.attached = batch.results \/ batch'.returned = batch.results))]_vars

\* The successful calls of fetch that went through the gate, and the stores
\* into the cache.
StoringCalls == {c \in Calls : fetchpc[c] = "done" /\ outcome[c].state = "fulfilled" /\ Started(c)}
Stores == SelectSeq(cacheLog, LAMBDA e : e.op = "set")

\* processUrl of call c has run to its end, its fetch holds no gate slot and
\* waits in no queue, and its outcome is in the results array.
RanToCompletion(c) == batch.item[c] = "removed" /\ fetchpc[c] = "done" /\ c \notin SlotHolders /\ gate[c] # "queued" /\ c \notin Range(timers) /\ Cardinality(ResultsOf(c)) = 1

\* C23: under stopOnError = true a failing item is in the results array, as a
\* failure, from the moment its promise rejects, hence before fetchBatch
\* throws; every successful fetch that passed the gate has stored into the
\* cache, whether it ended before or after the throw; and every item in
\* flight when fetchBatch throws runs to completion and releases its slot.
C23_RecordedBeforeThrowNoCancel ==
  /\ [](\A c \in Calls : batch.item[c] = "rejected" => \E i \in ResultsOf(c) : ~batch.results[i].success)
  /\ [](batch.outcome = "threw" => \E i \in ResultsOf(batch.thrown) : ~batch.results[i].success /\ batch.results[i].url = url[batch.thrown])
  /\ [](cacheConfig.enabled => Len(Stores) = Cardinality(StoringCalls))
  /\ \A c \in Calls : (batch.outcome = "threw" /\ batch.item[c] = "running") ~> RanToCompletion(c)

\* fetchBatch threw the error of one item while another was in flight; that
\* one has since succeeded, released its slot, stored its response and been
\* recorded after the failure.
C23_Witness ==
  /\ batch.outcome = "threw"
  /\ \E c \in Calls \ {batch.thrown} : \E i \in ResultsOf(batch.thrown), j \in ResultsOf(c) :
       /\ i < j /\ batch.results[j].success
       /\ RanToCompletion(c) /\ Started(c)
       /\ HasKey(url[c]) /\ cache[CacheIndex(cache, generateCacheKey(url[c]))].data = c

\* The transport calls made for call c of fetch.
TransportCallsOf(c) == {i \in 1..Len(startOrder) : startOrder[i] = c}

\* C24: one call of plain fetch makes at most one transport call, whatever
\* error that call ends with and whatever the retry configuration; once the
\* call has settled it runs no request body and waits in no queue, and no
\* other transport call exists than those of the calls of fetch.
C24_PlainFetchNeverRetries ==
  /\ \A c \in Calls : Cardinality(TransportCallsOf(c)) <= 1
  /\ \A c \in Calls : fetchpc[c] = "done" => ~Running(c) /\ gate[c] # "queued"
  /\ \A c \in Calls : fetchpc[c] = "idle" => TransportCallsOf(c) = {}
  /\ Len(startOrder) <= Cardinality(Issued)

\* A client configured to retry RATE_LIMITED up to twice: plain fetch ended
\* with RATE_LIMITED after its one transport call, and nothing else was sent.
C24_Witness ==
  /\ retryConfig.maxRetries = 2 /\ "RATE_LIMITED" \in retryConfig.retryableErrors
  /\ \E c \in Calls : fetchpc[c] = "done" /\ IsRateLimited(outcome[c]) /\ Cardinality(TransportCallsOf(c)) = 1 /\ Len(startOrder) = 1
  /\ \A c \in Calls : fetchpc[c] \in {"idle", "done"}

\* C25: detectPlatform returns P for every URL whose hostname matches a
\* pattern of platform P, the same on every repeated call, and null for a
\* URL that matches no pattern.
C25_DetectsOwningPlatform ==
  \A i \in 1..Len(detected) :
    LET e == detected[i]
    IN /\ isValidURL(e.url) => \A P \in MatchingPlatforms(e.url) : e.platform = P
       /\ (isValidURL(e.url) /\ MatchingPlatforms(e.url) = {}) => e.platform = "null"
       /\ \A j \in 1..Len(detected) : detected[j].url = e.url => detected[j].platform = e.platform

\* The code the claim gives for an HTTP error response.
StatusCodeName(resp) ==
  CASE resp.status = 400 -> IF resp.apiCode # "" THEN resp.apiCode ELSE "BAD_REQUEST"
    [] resp.status = 401 -> "UNAUTHORIZED"
    [] resp.status = 403 -> IF resp.apiCode # "" THEN resp.apiCode ELSE "FORBIDDEN"
    [] resp.status = 404 -> "CONTENT_NOT_FOUND"
    [] resp.status = 429 -> "RATE_LIMITED"
    [] OTHER -> "INTERNAL_ERROR"

\* C26: a fetch whose request was answered with an HTTP error status rejects
\* with the error of that status: 400 BAD_REQUEST or the API's code, 401
\* UNAUTHORIZED, 403 FORBIDDEN or the API's code, 404 CONTENT_NOT_FOUND, 429
\* RATE_LIMITED with the Retry-After header in the error's context, every
\* 5xx and every other status INTERNAL_ERROR carrying the status.
C26_StatusMapping ==
  \A c \in Calls :
    (fetchpc[c] = "done" /\ bodyResult[c].http.status # 0)
    => LET resp == bodyResult[c].http
       IN /\ outcome[c].state = "rejected"
          /\ outcome[c].code = StatusCodeName(resp)
          /\ resp.status = 429 => outcome[c].retryAfter = resp.retryAfter
          /\ resp.status \notin {400, 401, 403, 404, 429} => outcome[c].statusCode = resp.status

\* The code the claim gives for an issue string: the known strings as the
\* backend names them (in any letter case), "private_content", and API_ERROR
\* for everything else.
IssueCodeName(issue) ==
  LET key == issueToLowerCase(issue)
  IN IF key \in DOMAIN issueMap THEN issueMap[key]
     ELSE IF key = "private_content" THEN "PRIVATE_CONTENT"
     ELSE "API_ERROR"

\* C27: a fetch whose request was answered with a success status and a body
\* with success: false and an issue list rejects with the code of its first
\* issue string, and with API_ERROR when that string is not a known one.
C27_IssueMapping ==
  \A c \in Calls :
    (fetchpc[c] = "done" /\ bodyResult[c].state = "fulfilled" /\ ~bodyResult[c].success /\ bodyResult[c].code = "")
    => outcome[c].state = "rejected" /\ outcome[c].code = IssueCodeName(bodyResult[c].issue)

\* fetchWithRetry call s has entered its loop.
InLoop(s) == Begun(s) /\ retry[s].calls # <<>>

\* C28: the configuration a fetchWithRetry call works with takes every field
\* the call's own retryConfig gives from there and every other field from the
\* client; no step changes the client's stored configuration, so a call
\* without an override, made at the same time or later, works with the
\* client's values; and a call never makes more attempts than its own
\* effective maxRetries + 1.
C28_PerCallOverride ==
  /\ [][retryConfig' = retryConfig]_vars
  /\ [](\A s \in Sessions : InLoop(s) =>
          /\ \A f \in DOMAIN retryConfig : retry[s].config[f] = IF f \in DOMAIN retry[s].override THEN retry[s].override[f] ELSE retryConfig[f]
          /\ Attempts(s) <= (IF "maxRetries" \in DOMAIN retry[s].override THEN retry[s].override.maxRetries ELSE retryConfig.maxRetries) + 1)

\* On a client that never retries, a call with retryConfig {maxRetries: 1}
\* made a second attempt, and the next call, without an override, gave up
\* after its first RATE_LIMITED.
C28_Witness ==
  /\ retryConfig.maxRetries = 0
  /\ Finished(1) /\ Finished(2)
  /\ retry[1].override = [maxRetries |-> 1] /\ Attempts(1) = 2
  /\ retry[2].override = NoOverride /\ Attempts(2) = 1 /\ IsRateLimited(retry[2].outcome)

\* The keys of the Map in iteration order, i.e. insertion order.
KeyOrder(entries) == [i \in 1..Len(entries) |-> entries[i].key]
KeySet(entries) == {entries[i].key : i \in 1..Len(entries)}

\* The call made in this step is answered from the cache.
HitStep(c) == Calling(c) /\ fetchpc'[c] = "done" /\ outcome'[c].state = "fulfilled"

\* Call c returns from the gate with a success in this step and stores it.
StoreStep(c) == fetchpc[c] = "awaiting" /\ fetchpc'[c] = "done" /\ outcome'[c].state = "fulfilled" /\ cacheConfig.enabled

\* C29: the cache is first-in first-out: a hit leaves the order of the
\* entries as it was, whichever entry is read, and a store that removes an
\* entry removes the first of the insertion order and keeps the order of the
\* others, the stored key going last unless it is present already.
C29_EvictionIsFifo ==
  [][\A c \in Calls :
       /\ HitStep(c) => cache' = cache
       /\ (StoreStep(c) /\ KeySet(cache) \ KeySet(cache') # {})
          => /\ KeySet(cache) \ KeySet(cache') = {cache[1].key}
             /\ KeyOrder(cache') = (IF generateCacheKey(url[c]) \in KeySet(Tail(cache))
                                    THEN KeyOrder(Tail(cache))
                                    ELSE Append(KeyOrder(Tail(cache)), generateCacheKey(url[c])))]_vars

\* Two entries are stored and the older one has just been read: it is still
\* the first, the one the next eviction takes.
C29_Witness ==
  /\ Len(cache) = 2 /\ cacheConfig.maxSize = 2
  /\ \E c, d, e \in Calls :
       /\ d < e /\ e < c
       /\ cache[1].data = d /\ cache[2].data = e
       /\ fetchpc[c] = "done" /\ gate[c] = "none" /\ url[c] = url[d] /\ outcome[c] = Response(TRUE, "", d)

\* C30: a store removes an entry only when its key is new and the Map is
\* full; a store for a key that is present already leaves every other entry
\* in the cache, whatever the size.
C30_EvictsOnlyForNewKey ==
  [][\A c \in Calls :
       StoreStep(c)
       => /\ generateCacheKey(url[c]) \in KeySet(cache) => KeySet(cache) \subseteq KeySet(cache')
          /\ KeySet(cache) \ KeySet(cache') # {}
             => generateCacheKey(url[c]) \notin KeySet(cache) /\ Len(cache) + 1 > cacheConfig.maxSize]_vars

\* Call c ends in this step without a successful response: it is rejected
\* by validation, or its gate promise settled with an error, a queue timeout
\* or a success:false body.
FailStep(c) ==
  /\ fetchpc[c] # "done" /\ fetchpc'[c] = "done"
  /\ ~HitStep(c)
  /\ ~(fetchpc[c] = "awaiting" /\ IsSuccess(promise[c]))

\* The call of fetch(u) made in this step found an expired entry for u and
\* deleted it.
LazyDeletion(u) ==
  LET i == CacheIndex(cache, generateCacheKey(u))
  IN i # 0 /\ now - cache[i].timestamp > cache[i].ttl * 1000 /\ cache' = RemoveAt(cache, i)

\* C31: a call of fetch that ends without a successful response is rejected
\* and the step leaves the cache as it was; the cache changes only in the
\* step in which a successful call stores its response and in the step of a
\* call that deletes the expired entry of its own URL.
C31_OnlySuccessCached ==
  [][/\ \A c \in Calls : FailStep(c) => outcome'[c].state = "rejected" /\ cache' = cache /\ cacheLog' = cacheLog
     /\ cache' # cache => \E c \in Calls : \/ StoreStep(c) /\ IsSuccess(promise[c]) /\ ~FailStep(c)
                                           \/ Calling(c) /\ LazyDeletion(url'[c])]_vars

\* One call stored its response; two others failed, one on a legacy
\* success:false body and one on HTTP 404, and the cache holds the one entry.
C31_Witness ==
  /\ Len(cache) = 1
  /\ \E c, d, e \in Calls :
       /\ cache[1].data = c /\ fetchpc[c] = "done"
       /\ fetchpc[d] = "done" /\ outcome[d].state = "rejected" /\ bodyResult[d] = LegacyFailure("no_media")
       /\ fetchpc[e] = "done" /\ outcome[e].state = "rejected" /\ bodyResult[e].http.status = 404

\* C32: whenever a caller waits in the queue every slot is taken,
\* activeRequests = maxConcurrent, in every state between two steps of the
\* event loop; hence a call that takes a slot on arrival found the queue
\* empty and passed nobody.
C32_NoBarging ==
  /\ [](requestQueue # <<>> => activeRequests = rateLimitConfig.maxConcurrent)
  /\ [][\A c \in Calls : (Calling(c) /\ gate'[c] = "direct") => requestQueue = <<>>]_vars

\* With one slot: the first call has finished and handed its slot to the
\* second, the third still waits, and the slot counter is at its limit.
C32_Witness ==
  /\ rateLimitConfig.maxConcurrent = 1 /\ activeRequests = 1
  /\ \E c, d, e \in Calls : gate[c] = "released" /\ gate[d] = "admitted" /\ gate[e] = "queued" /\ requestQueue = <<e>>

\* Every call made so far has settled.
AllSettled == Issued # {} /\ \A c \in Issued : fetchpc[c] = "done"

\* C33: whenever every call issued to the client has settled, by success,
\* failure or queue timeout, getRateLimitStats() reports no active and no
\* queued request, and no queue timer is left armed.
C33_GateDoesNotLeak ==
  AllSettled => getRateLimitStats.activeRequests = 0 /\ getRateLimitStats.queuedRequests = 0 /\ timers = <<>>

\* Three calls went through a gate of one slot and all have settled: one
\* with a response, one with a transport error, one with a queue timeout.
C33_Witness ==
  /\ AllSettled /\ rateLimitConfig.maxConcurrent = 1
  /\ \E c, d, e \in Calls :
       /\ IsSuccess(outcome[c]) /\ Started(c)
       /\ outcome[d] = Failure("NETWORK_ERROR") /\ WasQueued(d) /\ Started(d)
       /\ outcome[e] = Failure("TIMEOUT") /\ e \in timedOut /\ ~Started(e)
  /\ activeRequests = 0 /\ requestQueue = <<>>

\* C34: a call that went to the gate has its request body started at most
\* once; its timer fires or it is admitted, never both; its promise, once
\* settled, keeps its value; and a finished call got the outcome of its one
\* execution, or TIMEOUT without any execution.
C34_SettledExactlyOnce ==
  /\ [](\A c \in Calls :
          /\ Cardinality(TransportCallsOf(c)) <= 1
          /\ ~(c \in timedOut /\ Started(c))
          /\ IsSettled(promise[c]) => \/ c \in timedOut /\ promise[c] = Failure("TIMEOUT")
                                      \/ Started(c) /\ promise[c] = bodyResult[c] /\ IsSettled(bodyResult[c])
          /\ (fetchpc[c] = "done" /\ gate[c] # "none") => IsSettled(promise[c]) /\ outcome[c] = FetchOutcomeOf(promise[c]))
  /\ [][\A c \in Calls : IsSettled(promise[c]) => promise'[c] = promise[c]]_vars

\* Two callers waited behind one slot: the first was admitted and got the
\* response of its execution, the second timed out without one.
C34_Witness ==
  \E c, d \in Calls :
    /\ WasQueued(c) /\ Started(c) /\ fetchpc[c] = "done" /\ outcome[c] = Response(TRUE, "", c) /\ c \notin timedOut
    /\ WasQueued(d) /\ ~Started(d) /\ fetchpc[d] = "done" /\ outcome[d] = Failure("TIMEOUT") /\ d \in timedOut

\* C35: every caller that waits in the queue is eventually admitted or
\* failed with TIMEOUT, and then settles; also when maxConcurrent is 0.
C35_QueuedCallerServed ==
  \A c \in Calls : (gate[c] = "queued") ~> ((Started(c) \/ c \in timedOut) /\ fetchpc[c] = "done")

\* A gate with no slot at all: all three callers were queued, none was ever
\* admitted, and each has been failed with TIMEOUT.
C35_Witness ==
  /\ rateLimitConfig.maxConcurrent = 0 /\ startOrder = <<>>
  /\ \A c \in Calls : WasQueued(c) /\ c \in timedOut /\ fetchpc[c] = "done" /\ outcome[c] = Failure("TIMEOUT")

\* C36: when fetchWithRetry goes on to another attempt, the attempt counter
\* has been advanced by one for each failed attempt and the error of the i-th
\* failed attempt carries retryAttempt = i and the maxRetries of the call's
\* configuration from the moment the next attempt is started; an error that
\* was not retried carries no annotation.
C36_RetryAnnotated ==
  \A s \in Sessions :
    InLoop(s) =>
      /\ retry[s].attempt = Len(retry[s].calls) - 1 + (IF retry[s].pc = "sleeping" THEN 1 ELSE 0)
      /\ \A i \in 1..(Len(retry[s].calls) - 1) :
           errorContext[retry[s].calls[i]] = [retryAttempt |-> i, maxRetries |-> retry[s].config.maxRetries]
      /\ errorContext[retry[s].calls[Len(retry[s].calls)]] = NoContext

\* A call with maxRetries 2 is in its third attempt: the errors of the first
\* two attempts are numbered 1 and 2.
C36_Witness ==
  \E s \in Sessions :
    /\ Attempts(s) = 3 /\ retry[s].pc = "attempting" /\ retry[s].config.maxRetries = 2
    /\ errorContext[retry[s].calls[1]].retryAttempt = 1
    /\ errorContext[retry[s].calls[2]].retryAttempt = 2
    /\ IsRateLimited(outcome[retry[s].calls[2]])

\* Call c of fetch has thrown an error: the error object exists.
HasError(c) == fetchpc[c] = "done" /\ outcome[c].state = "rejected"

\* C37: once an error exists no step changes any of its fields or its
\* context record.
C37_ErrorImmutable ==
  [][\A c \in Calls : HasError(c) => outcome'[c] = outcome[c] /\ errorContext'[c] = errorContext[c]]_vars

\* fetchWithRetry call s wakes from the sleep after the error of call c and
\* starts its next attempt.
RetriesAfter(s, c) == retry[s].pc = "sleeping" /\ retry[s].call = c /\ retry'[s].pc = "attempting"

\* C37 as it holds: the fields of an error never change; its context record
\* is written at most once, by the fetchWithRetry call that caught it, in
\* the step that starts the next attempt, with that call's attempt number
\* and maxRetries; the error a fetchWithRetry call throws is never written.
C37_OnlyRetryAnnotates ==
  /\ [][\A c \in Calls : HasError(c) =>
          /\ outcome'[c] = outcome[c]
          /\ errorContext'[c] # errorContext[c]
             => /\ errorContext[c] = NoContext
                /\ \E s \in Sessions : RetriesAfter(s, c) /\ errorContext'[c] = [retryAttempt |-> retry[s].attempt, maxRetries |-> retry[s].config.maxRetries]]_vars
  /\ [](\A s \in Sessions : Finished(s) /\ retry[s].thrown # 0 => errorContext[retry[s].thrown] = NoContext)

\* A call gave up after two retries: the two errors it slept on were
\* annotated after their construction, the one it threw was not.
C37_Witness ==
  \E s \in Sessions :
    /\ Finished(s) /\ Attempts(s) = 3 /\ retry[s].thrown = retry[s].calls[3]
    /\ errorContext[retry[s].calls[1]] = [retryAttempt |-> 1, maxRetries |-> 2]
    /\ errorContext[retry[s].calls[2]] = [retryAttempt |-> 2, maxRetries |-> 2]
    /\ errorContext[retry[s].thrown] = NoContext

\* Merge/convert call k is made, or answered, in this step.
DirectStep(k) == direct'[k] # direct[k]

\* C38: a step of merge or convert leaves the cache, the slot counter, the
\* wait queue and its timers as they are; a merge or convert whose arguments
\* are valid hands its request to the transport in the step of the call,
\* whatever the cache holds and however full the gate is; and the slot
\* counter counts the bodies of fetch only.
C38_DirectOutsideGateAndCache ==
  /\ [][\A k \in Ops : DirectStep(k) =>
          /\ cache' = cache /\ cacheLog' = cacheLog
          /\ activeRequests' = activeRequests /\ requestQueue' = requestQueue /\ timers' = timers
          /\ startOrder' = startOrder /\ queueOrder' = queueOrder /\ timedOut' = timedOut /\ gate' = gate
          /\ CallingDirect(k) =>
               LET d == direct'[k]
                   code == IF d.kind = "merge" THEN mergeValidation(d.url, d.option) ELSE convertValidation(d.url, d.option)
               IN d.requested <=> code = ""]_vars
  /\ [](activeRequests = Cardinality(SlotHolders))

\* A merge is waiting for the transport while the only slot of the gate is
\* held by a fetch, another fetch waits in the queue, and the cache holds an
\* entry for the very URL being merged.
C38_Witness ==
  \E k \in Ops :
    /\ direct[k].pc = "awaiting" /\ direct[k].requested /\ direct[k].kind = "merge"
    /\ HasKey(direct[k].url)
    /\ activeRequests = rateLimitConfig.maxConcurrent /\ Len(requestQueue) = 1

\* C39: every fetchBatch call that has been made eventually resolves or
\* rejects, for every list of URLs and every concurrency option.
C39_BatchTerminates == (batch.pc # "idle") ~> (batch.pc = "done")

\* C40: the results array lists the outcomes in the order in which the
\* fetches settled: it is, entry for entry, the sequence of settled calls
\* whose processUrl has resumed, so outcome i precedes outcome j exactly when
\* the fetch of i settled before that of j; an outcome is recorded in the
\* first reaction after its fetch settles, before any request completes, any
\* timer fires or any later fetch settles.
C40_ResultsInCompletionOrder ==
  /\ [](Len(batch.results) <= Len(batch.settled)
        /\ \A i \in 1..Len(batch.results) : batch.results[i].call = batch.settled[i])
  /\ [](Len(batch.settled) - Len(batch.results) <= Cardinality({c \in Calls : batch.item[c] = "running" /\ fetchpc[c] = "done"}))
  /\ [][\A c \in Calls : (batch.item[c] = "running" /\ fetchpc[c] = "done")
          => (bodyResult' = bodyResult /\ timedOut' = timedOut /\ now' = now)]_vars

\* Two URLs were started together and the second one's fetch settled first:
\* the returned list has the second input before the first.
C40_Witness ==
  /\ batch.pc = "done" /\ batch.outcome = "returned" /\ batch.concurrency = 2 /\ Len(batch.returned) = 2
  /\ batch.started = <<1, 2>>
  /\ batch.returned[1].call = 2 /\ batch.returned[2].call = 1
  /\ Started(1) /\ Started(2)

====
